---------------------------- MODULE Spec2Model ----------------------------
(* gh-aca-utils (cmd/main.go): the flip-adapters command, the adapter       *)
(* store of set-adapters, the ip-port scan with --all-branches, and the     *)
(* text helpers they rest on.  A Go string is a sequence of one-character   *)
(* strings; a properties file is such a sequence holding "\n" between its   *)
(* lines.  Go slices are 0-based, sequences here 1-based.                   *)
EXTENDS Integers, Sequences, FiniteSets, TLC

(* ------------------------------ bounds ---------------------------------- *)

\* Most lines of a properties file the checkout may hold.
MaxLines == 2

\* Most comma-separated entries of an --adapters argument.
MaxWant == 2

\* Most characters of a line handed to the line classifier.
MaxLineLen == 4

\* Most files of a tree ip-port walks.
MaxFiles == 2

\* Most digits of a value handed to looksLikePort.
MaxDigits == 6

\* Most set-adapters commands of a run.
MaxCmds == 3

\* Most characters of an --env argument handed to the path check.
MaxEnvLen == 4

\* Most lines of what git branch -r prints.
MaxBranchLines == 3

(* ---------------------------- characters -------------------------------- *)

NL == "\n"
SP == " "
CR == "\r"
\* U+000B, white space for strings.TrimSpace but not for the regexp class \s
VT == "<VT>"
QUOTE == "\""

\* Go regexp \s is [\t\n\f\r ]
IsReSpace(c) == c \in {"\t", "\n", "\f", "\r", " "}

\* unicode.IsSpace on the characters used here
IsSpace(c) == c \in {"\t", "\n", VT, "\f", "\r", " "}

Digit == {"0", "1", "2", "3", "4", "5", "6", "7", "8", "9"}

Lower == {"a", "b", "c", "d", "e", "f", "g", "h", "i", "j", "k", "l", "m",
          "n", "o", "p", "q", "r", "s", "t", "u", "v", "w", "x", "y", "z"}

Upper == {"A", "B", "C", "D", "E", "F", "G", "H", "I", "J", "K", "L", "M",
          "N", "O", "P", "Q", "R", "S", "T", "U", "V", "W", "X", "Y", "Z"}

\* the class [A-Za-z0-9_.\-] of kvRe and portRe
IsKeyChar(c) == c \in Lower \cup Upper \cup Digit \cup {"_", ".", "-"}

(* ------------------------- package strings ------------------------------ *)

RECURSIVE TrimLeft(_)
TrimLeft(s) ==
    IF s = <<>> THEN <<>>
    ELSE IF IsSpace(Head(s)) THEN TrimLeft(Tail(s)) ELSE s

RECURSIVE TrimRight(_)
TrimRight(s) ==
    IF s = <<>> THEN <<>>
    ELSE IF IsSpace(s[Len(s)]) THEN TrimRight(SubSeq(s, 1, Len(s) - 1)) ELSE s

TrimSpace(s) == TrimRight(TrimLeft(s))

HasPrefix(s, p) == Len(s) >= Len(p) /\ SubSeq(s, 1, Len(p)) = p

TrimPrefix(s, p) == IF HasPrefix(s, p) THEN SubSeq(s, Len(p) + 1, Len(s)) ELSE s

Contains(s, p) ==
    \E i \in 1..(Len(s) - Len(p) + 1) : SubSeq(s, i, i + Len(p) - 1) = p

\* strings.Split(s, sep) for a one-character sep: always at least one piece
RECURSIVE splitFrom(_, _, _, _)
\* the pieces of s from position i on, from being the start of the current one
splitFrom(s, sep, from, i) ==
    IF i > Len(s) THEN <<SubSeq(s, from, Len(s))>>
    ELSE IF s[i] = sep
         THEN <<SubSeq(s, from, i - 1)>> \o splitFrom(s, sep, i + 1, i + 1)
         ELSE splitFrom(s, sep, from, i + 1)

Split(s, sep) == splitFrom(s, sep, 1, 1)

\* strings.Join(parts, sep)
RECURSIVE Join(_, _)
Join(parts, sep) ==
    IF parts = <<>> THEN <<>>
    ELSE IF Len(parts) = 1 THEN parts[1]
    ELSE parts[1] \o <<sep>> \o Join(Tail(parts), sep)

(* --------------------------- package regexp ----------------------------- *)

\* \w of Go regexp, the class \b is defined by
IsWord(c) == c \in Lower \cup Upper \cup Digit \cup {"_"}

\* the syntax tree of a regular expression: one character out of a set, a
\* concatenation, an alternation (the left branch is preferred), a greedy
\* repetition {lo,hi} (hi = -1: unbounded), and the word boundary \b
Set(S) == [t |-> "set", s |-> S]
Cat(x, y) == [t |-> "cat", a |-> x, b |-> y]
Alt(x, y) == [t |-> "alt", a |-> x, b |-> y]
Rep(x, lo, hi) == [t |-> "rep", a |-> x, lo |-> lo, hi |-> hi]
WordBoundary == [t |-> "wb"]

RECURSIVE CatAll(_)
CatAll(rs) == IF Len(rs) = 1 THEN rs[1] ELSE Cat(rs[1], CatAll(Tail(rs)))

RECURSIVE AltAll(_)
AltAll(rs) == IF Len(rs) = 1 THEN rs[1] ELSE Alt(rs[1], AltAll(Tail(rs)))

RECURSIVE Ends(_, _, _)
\* the positions after the matches of re that start at position i of s, in the
\* order a backtracking search finds them: the first is the match Go's
\* leftmost-first semantics gives
Ends(re, s, i) ==
    LET RECURSIVE Flat(_)
        Flat(ss) == IF ss = <<>> THEN <<>> ELSE Head(ss) \o Flat(Tail(ss))
    IN
    CASE re.t = "set" ->
            IF i <= Len(s) /\ s[i] \in re.s THEN <<i + 1>> ELSE <<>>
      [] re.t = "wb" ->
            IF (i > 1 /\ IsWord(s[i - 1])) # (i <= Len(s) /\ IsWord(s[i]))
            THEN <<i>> ELSE <<>>
      [] re.t = "cat" ->
            LET ea == Ends(re.a, s, i)
            IN Flat([k \in 1..Len(ea) |-> Ends(re.b, s, ea[k])])
      [] re.t = "alt" -> Ends(re.a, s, i) \o Ends(re.b, s, i)
      [] re.t = "rep" ->
            IF re.hi = 0 THEN <<i>>
            ELSE LET ea == SelectSeq(Ends(re.a, s, i), LAMBDA e : e > i)
                     rest == Rep(re.a, IF re.lo > 0 THEN re.lo - 1 ELSE 0,
                                 IF re.hi > 0 THEN re.hi - 1 ELSE re.hi)
                     more == Flat([k \in 1..Len(ea) |-> Ends(rest, s, ea[k])])
                 IN IF re.lo > 0 THEN more ELSE more \o <<i>>

RECURSIVE findFrom(_, _, _)
\* the leftmost match of re in s at or after position i: <<start, end>> with
\* end the position after the match, <<>> when there is none
findFrom(re, s, i) ==
    IF i > Len(s) + 1 THEN <<>>
    ELSE LET e == Ends(re, s, i)
         IN IF e # <<>> THEN <<i, e[1]>> ELSE findFrom(re, s, i + 1)

\* (*Regexp).FindString: the text of the leftmost match, "" without a match
FindString(re, s) ==
    LET mm == findFrom(re, s, 1)
    IN IF mm = <<>> THEN <<>> ELSE SubSeq(s, mm[1], mm[2] - 1)

\* (*Regexp).MatchString
MatchString(re, s) == findFrom(re, s, 1) # <<>>

(* -------------------------- line classifier ----------------------------- *)

RECURSIVE SkipReSpace(_, _)
\* the position after the run of \s characters of s that starts at i
SkipReSpace(s, i) ==
    IF i <= Len(s) /\ IsReSpace(s[i]) THEN SkipReSpace(s, i + 1) ELSE i

RECURSIVE SkipKey(_, _)
\* the position after the run of key characters of s that starts at i
SkipKey(s, i) ==
    IF i <= Len(s) /\ IsKeyChar(s[i]) THEN SkipKey(s, i + 1) ELSE i

RECURSIVE LastNonReSpace(_, _)
\* the last position >= lo of s holding a non-\s character, lo - 1 if none
LastNonReSpace(s, lo) ==
    IF Len(s) < lo THEN lo - 1
    ELSE IF IsReSpace(s[Len(s)])
         THEN LastNonReSpace(SubSeq(s, 1, Len(s) - 1), lo)
         ELSE Len(s)

\* kvRe.FindStringSubmatch(line) for ^\s*([A-Za-z0-9_.\-]+)\s*[:=]\s*(.+?)\s*$ :
\* <<>> when the line does not match, else <<line, key, value>>.  The three
\* character classes before the separator are disjoint, so the key is the
\* whole run of key characters.  After the separator the greedy \s* takes
\* all leading white space and the lazy (.+?) stops at the last non-space
\* character; when only white space follows the separator, \s* gives back
\* one character and (.+?) takes the last one.  A line holds no "\n".
kvRe(line) ==
    LET k0 == SkipReSpace(line, 1)
        k1 == SkipKey(line, k0)
        s0 == SkipReSpace(line, k1)
    IN IF k1 = k0 \/ s0 > Len(line) \/ line[s0] \notin {":", "="} \/ s0 = Len(line)
          \/ (\E j \in 1..Len(line) : line[j] = NL)
       THEN <<>>
       ELSE LET v0 == SkipReSpace(line, s0 + 1)
                v1 == LastNonReSpace(line, s0 + 1)
            IN IF v0 > Len(line)
               THEN <<line, SubSeq(line, k0, k1 - 1), <<line[Len(line)]>> >>
               ELSE <<line, SubSeq(line, k0, k1 - 1), SubSeq(line, v0, v1)>>

parseKV(line) ==
    LET m == kvRe(line)
    IN IF Len(m) # 3
       THEN [key |-> <<>>, val |-> <<>>, ok |-> FALSE]
       ELSE [key |-> m[2], val |-> TrimSpace(m[3]), ok |-> TRUE]

\* isCommentOrBlank taking a comment marker anywhere in the line
isCommentAnywhere(line) ==
    TrimSpace(line) = <<>> \/ Contains(line, <<"#">>) \/ Contains(line, <<";">>)

isCommentOrBlank(line) ==
    LET trim == TrimSpace(line)
    IN trim = <<>> \/ HasPrefix(trim, <<"#">>) \/ HasPrefix(trim, <<";">>)

splitCSVLoop(parts) ==
    LET RECURSIVE Go(_)
        Go(ps) ==
            IF ps = <<>> THEN <<>>
            ELSE LET pp == TrimSpace(Head(ps))
                 IN (IF pp # <<>> THEN <<pp>> ELSE <<>>) \o Go(Tail(ps))
    IN Go(parts)

\* splitCSV keeping the first of the entries that are the same
splitCSVOnce(s, def) ==
    LET RECURSIVE Once(_, _)
        Once(rest, seen) ==
            IF rest = <<>> THEN <<>>
            ELSE IF Head(rest) \in seen THEN Once(Tail(rest), seen)
            ELSE <<Head(rest)>> \o Once(Tail(rest), seen \cup {Head(rest)})
    IN IF TrimSpace(s) = <<>> THEN def ELSE Once(splitCSVLoop(Split(s, ",")), {})

splitCSV(s, def) ==
    IF TrimSpace(s) = <<>> THEN def ELSE splitCSVLoop(Split(s, ","))


(* ------------------------- IP and port detectors ------------------------ *)

\* main.go 462: \b((25[0-5]|2[0-4][0-9]|[01]?[0-9]?[0-9])\.){3}(...)\b
ipv4 ==
    LET digits == <<"0", "1", "2", "3", "4", "5", "6", "7", "8", "9">>
        d(lo, hi) == Set({ digits[n + 1] : n \in lo..hi })
        octet == AltAll(<< CatAll(<<d(2, 2), d(5, 5), d(0, 5)>>),
                           CatAll(<<d(2, 2), d(0, 4), d(0, 9)>>),
                           CatAll(<<Rep(d(0, 1), 0, 1), Rep(d(0, 9), 0, 1), d(0, 9)>>) >>)
    IN CatAll(<< WordBoundary, Rep(Cat(octet, Set({"."})), 3, 3), octet,
                 WordBoundary >>)

\* main.go 464: the eleven alternatives of the (?i) IPv6 expression
ipv6 ==
    LET h == Rep(Set(Digit \cup {"a", "b", "c", "d", "e", "f"}
                           \cup {"A", "B", "C", "D", "E", "F"}), 1, 4)
        colon == Set({":"})
        hc == Cat(h, colon)
        ch == Cat(colon, h)
    IN AltAll(<< Cat(Rep(hc, 7, 7), h),
                 CatAll(<<Rep(hc, 1, 6), colon, colon, h>>),
                 Cat(Rep(hc, 1, 5), Rep(ch, 1, 2)),
                 Cat(Rep(hc, 1, 4), Rep(ch, 1, 3)),
                 Cat(Rep(hc, 1, 3), Rep(ch, 1, 4)),
                 Cat(Rep(hc, 1, 2), Rep(ch, 1, 5)),
                 Cat(hc, Rep(ch, 1, 6)),
                 Cat(colon, Rep(ch, 1, 7)),
                 Cat(Rep(hc, 1, 7), colon),
                 CatAll(<<colon, colon, Set({"1"})>>),
                 Cat(colon, colon) >>)

\* main.go 466: (?i)\b([A-Za-z0-9_.\-]*port[A-Za-z0-9_.\-]*)\s*[:=\s]\s*["']?
\* ([0-9]{2,5})["']?\b as its parts in order: \b, group 1, the separator with
\* the opening quote, group 2, the closing quote with \b
portRe ==
    LET key == Rep(Set(Lower \cup Upper \cup Digit \cup {"_", ".", "-"}), 0, -1)
        ws == Rep(Set({"\t", "\n", "\f", "\r", " "}), 0, -1)
        quote == Rep(Set({QUOTE, "'"}), 0, 1)
    IN << WordBoundary,
          CatAll(<< key, Set({"p", "P"}), Set({"o", "O"}), Set({"r", "R"}),
                    Set({"t", "T"}), key >>),
          CatAll(<< ws, Set({":", "=", "\t", "\n", "\f", "\r", " "}), ws, quote >>),
          Rep(Set(Digit), 2, 5),
          Cat(quote, WordBoundary) >>

RECURSIVE firstPath(_, _, _)
\* the first way, in the order of a backtracking search, to match the parts
\* one after the other from position i of s: <<i, end of part 1, ...>>, or <<>>
firstPath(parts, s, i) ==
    IF parts = <<>> THEN <<i>>
    ELSE LET ea == Ends(Head(parts), s, i)
             RECURSIVE try(_)
             try(k) ==
                 IF k > Len(ea) THEN <<>>
                 ELSE LET r == firstPath(Tail(parts), s, ea[k])
                      IN IF r # <<>> THEN <<i>> \o r ELSE try(k + 1)
         IN try(1)

RECURSIVE submatchFrom(_, _, _)
\* the leftmost match of the parts in s at or after position i
submatchFrom(parts, s, i) ==
    IF i > Len(s) + 1 THEN <<>>
    ELSE LET r == firstPath(parts, s, i)
         IN IF r # <<>> THEN r ELSE submatchFrom(parts, s, i + 1)

stripQuotes(s0) ==
    LET s == TrimSpace(s0)
    IN IF /\ Len(s) >= 2
          /\ \/ s[1] = "'" /\ s[Len(s)] = "'"
             \/ s[1] = QUOTE /\ s[Len(s)] = QUOTE
       THEN SubSeq(s, 2, Len(s) - 1)
       ELSE s

looksLikeIP(s) ==
    LET ss == stripQuotes(s)
    IN MatchString(ipv4, ss) \/ MatchString(ipv6, ss)

\* firstIP giving the literal that starts first, of either kind
firstIPLeftmost(s) ==
    LET m4 == findFrom(ipv4, s, 1)
        m6 == findFrom(ipv6, s, 1)
    IN IF m4 = <<>> THEN FindString(ipv6, s)
       ELSE IF m6 = <<>> \/ m4[1] <= m6[1] THEN FindString(ipv4, s)
       ELSE FindString(ipv6, s)

firstIP(s) ==
    LET mm == FindString(ipv4, s)
    IN IF mm # <<>> THEN mm ELSE FindString(ipv6, s)

findInlinePort(line) ==
    LET mm == submatchFrom(portRe, line, 1)
    IN IF mm = <<>>
       THEN [key |-> <<>>, val |-> <<>>, ok |-> FALSE]
       ELSE [key |-> SubSeq(line, mm[2], mm[3] - 1),
             val |-> SubSeq(line, mm[4], mm[5] - 1),
             ok |-> TRUE]

\* strings.ToLower on the letters A-Z
ToLower(s) ==
    LET up == <<"A", "B", "C", "D", "E", "F", "G", "H", "I", "J", "K", "L", "M",
                "N", "O", "P", "Q", "R", "S", "T", "U", "V", "W", "X", "Y", "Z">>
        lo == <<"a", "b", "c", "d", "e", "f", "g", "h", "i", "j", "k", "l", "m",
                "n", "o", "p", "q", "r", "s", "t", "u", "v", "w", "x", "y", "z">>
    IN [j \in 1..Len(s) |->
           IF s[j] \in Upper THEN lo[CHOOSE n \in 1..26 : up[n] = s[j]] ELSE s[j]]

\* looksLikePort taking only the port numbers 1..65535
looksLikePortInRange(k, v) ==
    LET vv == stripQuotes(v)
        digits == <<"0", "1", "2", "3", "4", "5", "6", "7", "8", "9">>
        RECURSIVE num(_)
        num(ds) ==
            IF ds = <<>> THEN 0
            ELSE 10 * num(SubSeq(ds, 1, Len(ds) - 1))
                    + (CHOOSE n \in 0..9 : digits[n + 1] = ds[Len(ds)])
    IN /\ Contains(ToLower(k), <<"p", "o", "r", "t">>)
       /\ Len(vv) >= 2 /\ Len(vv) <= 5
       /\ \A j \in 1..Len(vv) : vv[j] \in Digit
       /\ num(vv) >= 1 /\ num(vv) <= 65535

looksLikePort(k, v) ==
    IF ~Contains(ToLower(k), <<"p", "o", "r", "t">>) THEN FALSE
    ELSE LET vv == stripQuotes(v)
         IN IF Len(vv) < 2 \/ Len(vv) > 5 THEN FALSE
            ELSE \A j \in 1..Len(vv) : vv[j] \in Digit

(* --------------------------- package filepath --------------------------- *)

RECURSIVE cleanElems(_, _, _)
\* the element loop of filepath.Clean: "" and "." are dropped, ".." removes
\* the element before it, is dropped at the root and is kept otherwise
cleanElems(elems, out, rooted) ==
    IF elems = <<>> THEN out
    ELSE LET e == Head(elems)
         IN IF e = <<>> \/ e = <<".">> THEN cleanElems(Tail(elems), out, rooted)
            ELSE IF e = <<".", ".">>
                 THEN IF out # <<>> /\ out[Len(out)] # <<".", ".">>
                      THEN cleanElems(Tail(elems), SubSeq(out, 1, Len(out) - 1), rooted)
                      ELSE IF rooted THEN cleanElems(Tail(elems), out, rooted)
                      ELSE cleanElems(Tail(elems), Append(out, e), rooted)
                 ELSE cleanElems(Tail(elems), Append(out, e), rooted)

\* filepath.Clean with "/" as the separator
Clean(path) ==
    IF path = <<>> THEN <<".">>
    ELSE LET rooted == path[1] = "/"
             body == Join(cleanElems(Split(path, "/"), <<>>, rooted), "/")
             res == (IF rooted THEN <<"/">> ELSE <<>>) \o body
         IN IF res = <<>> THEN <<".">> ELSE res

\* filepath.Join: the non-empty elements joined by "/" and cleaned
PathJoin(elems) ==
    LET ne == SelectSeq(elems, LAMBDA e : e # <<>>)
    IN IF ne = <<>> THEN <<>> ELSE Clean(Join(ne, "/"))

(* ------------------------------ inputs ---------------------------------- *)

\* the content of a file that does not exist (no file holds this character)
NoFile == <<"<absent>">>

\* the directory os.MkdirTemp returns
tmpDir == <<"/", "t">>

\* "parameters.properties"
PropsName == <<"p", ".", "p">>

EnvDirName == <<"e", "n", "v">>

\* lines a parameters.properties file is made of
PropLines ==
    { <<"a", "=", "0">>,
      <<"a", "=", "1">>,
      <<"b", ":", "0">>,
      <<SP, "a", SP, ":", SP, "0", SP>>,
      <<"a", "=", "1", CR>>,
      <<"a", "=", "0", VT>>,
      <<"a", "=", QUOTE, "0", QUOTE>>,
      <<"a", "=", "0", SP, "#">>,
      <<"a", "=", SP>>,
      <<"a", SP, "0">>,
      <<"#", "a", "=", "0">>,
      <<SP, ";", "b", "=", "1">>,
      <<>> }

\* the files of 1..MaxLines lines out of pool, the lines joined by "\n"
FilesOf(pool) ==
    { Join(ls, NL) : ls \in UNION { [1..n -> pool] : n \in 1..MaxLines } }

\* contents of the properties file for the toggle alone
Contents == FilesOf(PropLines)

\* lines of the properties file of the repository the whole command runs on
RepoLines ==
    { <<"a", "=", "0">>,
      <<"b", ":", "1">>,
      <<SP, "a", SP, ":", SP, "1", SP, CR>>,
      <<"a", "=", "t">>,
      <<"#", "a", "=", "0">>,
      <<>> }

RepoContents == FilesOf(RepoLines)

\* entries of an --adapters argument
CsvItems == { <<"a">>, <<SP, "b">>, <<>> }

AdapterArgs ==
    { Join(p, ",") : p \in UNION { [1..n -> CsvItems] : n \in 0..MaxWant } }

RepoArgs == { "", "org/repo" }

EnvArgs == { <<>>, <<"d">>, <<".", ".">> }

\* contents of ~/.gh-aca-utils/adapters.txt
StoreFiles == { NoFile, <<"b", NL>> }


(* ------------------------------- state ---------------------------------- *)

VARIABLES
    pc,           \* position of the command: idle, then inside RunE, then done
    repo,         \* --repo
    envName,      \* --env
    adaptersCSV,  \* --adapters
    doCommit,     \* --commit
    doPR,         \* --pr
    dryRun,       \* --dry-run
    adaptersFile, \* ~/.gh-aca-utils/adapters.txt, NoFile when absent
    propPath,     \* path of the properties file, <<>> before it is computed
    disk,         \* the properties file of the checkout, NoFile before the read
    b,            \* the bytes os.ReadFile returned
    lines,        \* strings.Split(string(b), "\n"), rewritten in place
    want,         \* splitCSV(adaptersCSV, nil)
    m,            \* adapter -> line index
    i,            \* position of the loop over want
    changes,      \* the change records
    skipped,      \* the warnings of the loop, <<adapter, reason>>
    ran,          \* the external steps RunE has started, in order
    err,          \* "none", or the step whose error RunE returned
    call,         \* a call of a helper function: its name and its arguments
    ret,          \* <<>> before the call returns, then <<its result>>
    tree,         \* ip-port: the files under the root, path -> content
    files,        \* ip-port: the paths the walk collected, then sorted
    fi,           \* ip-port: position of the loop over files
    pending,      \* ip-port: the lines the scanner of the open file still holds
    lineNo,       \* ip-port: lineNo of the open file
    rows,         \* ip-port: the match rows
    warnings,     \* ip-port: the warnings written to stderr
    cmds,         \* the set-adapters commands run so far, with their results
    remote,       \* --all-branches: what git prints and checks out in the clone
    branches,     \* --all-branches: what getAllBranches returned
    bi,           \* --all-branches: position of the loop over branches
    allRows       \* --all-branches: the rows of the branches scanned so far

callVars == <<call, ret>>

scanVars == <<tree, files, fi, pending, lineNo, rows, warnings>>

branchVars == <<remote, branches, bi, allRows>>

\* the state flip-adapters does not touch
otherVars == <<callVars, scanVars, cmds, branchVars>>

vars == <<pc, repo, envName, adaptersCSV, doCommit, doPR, dryRun, adaptersFile,
          propPath, disk, b, lines, want, m, i, changes, skipped, ran, err,
          call, ret, tree, files, fi, pending, lineNo, rows, warnings, cmds,
          remote, branches, bi, allRows>>

flags == <<repo, envName, adaptersCSV, doCommit, doPR, dryRun>>

loopVars == <<b, lines, want, m, i, changes, skipped>>

EmptyIndex == [k \in {} |-> 0]

\* no helper is called and ip-port does not run
OthersIdle ==
    /\ call = [fn |-> "none"]
    /\ ret = <<>>
    /\ tree = <<>>
    /\ files = <<>>
    /\ fi = 1
    /\ pending = <<>>
    /\ lineNo = 0
    /\ rows = <<>>
    /\ warnings = <<>>
    /\ cmds = <<>>
    /\ remote = <<>>
    /\ branches = <<>>
    /\ bi = 1
    /\ allRows = <<>>

Init ==
    /\ pc = "idle"
    /\ repo = ""
    /\ envName = <<>>
    /\ adaptersCSV = <<>>
    /\ doCommit = FALSE
    /\ doPR = FALSE
    /\ dryRun = TRUE
    /\ adaptersFile \in StoreFiles
    /\ propPath = <<>>
    /\ disk = NoFile
    /\ b = <<>>
    /\ lines = <<>>
    /\ want = <<>>
    /\ m = EmptyIndex
    /\ i = 1
    /\ changes = <<>>
    /\ skipped = <<>>
    /\ ran = <<>>
    /\ err = "none"
    /\ OthersIdle

(* ------------------------ adapter store (read) -------------------------- *)

\* strings.ReplaceAll(s, "\r\n", "\n"): every "\r" that a "\n" follows is
\* left out
ReplaceCRLF(s) ==
    LET kept == SelectSeq([j \in 1..Len(s) |-> j],
                          LAMBDA j : ~(s[j] = CR /\ j < Len(s) /\ s[j + 1] = NL))
    IN [n \in 1..Len(kept) |-> s[kept[n]]]

\* what loadStoredAdapters returns for the content of the adapter file
loadStoredAdapters(content) ==
    LET ls == Split(TrimSpace(ReplaceCRLF(content)), NL)
        trimmed == [j \in 1..Len(ls) |-> TrimSpace(ls[j])]
    IN SelectSeq(trimmed, LAMBDA a : a # <<>> /\ ~HasPrefix(a, <<"#">>))

(* --------------------------- flip-adapters ------------------------------ *)

\* RunE returns the error of step
Fail(step) ==
    /\ pc' = "done"
    /\ err' = step

\* the command line is parsed into the flag variables and RunE starts
Invoke ==
    /\ pc = "idle"
    /\ \E r \in RepoArgs, e \in EnvArgs, a \in AdapterArgs, c, p, d \in BOOLEAN :
          /\ repo' = r
          /\ envName' = e
          /\ adaptersCSV' = a
          /\ doCommit' = c
          /\ doPR' = p
          /\ dryRun' = d
    /\ pc' = "validate"
    /\ UNCHANGED <<adaptersFile, otherVars, propPath, disk, loopVars, ran, err>>

\* main.go 113-135: the required flags, and the stored adapters when
\* --adapters is empty
Validate ==
    /\ pc = "validate"
    /\ IF repo = "" THEN Fail("repo") /\ UNCHANGED adaptersCSV
       ELSE IF envName = <<>> THEN Fail("env") /\ UNCHANGED adaptersCSV
       ELSE IF adaptersCSV = <<>>
            THEN IF adaptersFile = NoFile
                 THEN Fail("adapters") /\ UNCHANGED adaptersCSV
                 ELSE LET storedAdapters == loadStoredAdapters(adaptersFile)
                      IN IF Len(storedAdapters) = 0
                         THEN Fail("adapters") /\ UNCHANGED adaptersCSV
                         ELSE IF \E j \in 1..Len(storedAdapters) :
                                    TrimSpace(storedAdapters[j]) = <<>>
                              THEN Fail("adapters") /\ UNCHANGED adaptersCSV
                              ELSE /\ adaptersCSV' = Join(storedAdapters, ",")
                                   /\ pc' = "clone"
                                   /\ UNCHANGED err
            ELSE pc' = "clone" /\ UNCHANGED <<adaptersCSV, err>>
    /\ UNCHANGED <<repo, envName, doCommit, doPR, dryRun, adaptersFile, otherVars, propPath,
                   disk, loopVars, ran>>

\* main.go 138-142: cloneOrDownload gives the checkout in tmpDir
CloneOk ==
    /\ pc = "clone"
    /\ ran' = Append(ran, "clone")
    /\ pc' = "env"
    /\ UNCHANGED <<flags, adaptersFile, otherVars, propPath, disk, loopVars, err>>

CloneFail ==
    /\ pc = "clone"
    /\ ran' = Append(ran, "clone")
    /\ Fail("clone")
    /\ UNCHANGED <<flags, adaptersFile, otherVars, propPath, disk, loopVars>>

\* main.go 145-146: the environment name is rejected
BadEnvName(cleanEnvName) ==
    \/ Contains(cleanEnvName, <<".", ".">>)
    \/ Contains(cleanEnvName, <<"/">>)
    \/ Contains(cleanEnvName, <<"\\">>)

\* CheckEnv taking every environment name
CheckEnvUnchecked ==
    /\ pc = "env"
    /\ propPath' = PathJoin(<<tmpDir, EnvDirName, envName, PropsName>>)
    /\ pc' = "read"
    /\ UNCHANGED <<flags, adaptersFile, otherVars, disk, loopVars, ran, err>>

\* main.go 144-154: the path of the properties file
CheckEnv ==
    /\ pc = "env"
    /\ LET cleanEnvName == Clean(envName)
           path == PathJoin(<<tmpDir, EnvDirName, cleanEnvName, PropsName>>)
       IN IF BadEnvName(cleanEnvName)
          THEN Fail("envname") /\ UNCHANGED propPath
          ELSE IF ~HasPrefix(path, PathJoin(<<tmpDir, EnvDirName>>) \o <<"/">>)
               THEN Fail("path") /\ UNCHANGED propPath
               ELSE propPath' = path /\ pc' = "read" /\ UNCHANGED err
    /\ UNCHANGED <<flags, adaptersFile, otherVars, disk, loopVars, ran>>


(* main.go 160-175: the lines and the index *)

\* MapSet keeping the first line of a key
MapSetKeepFirst(mm, k, v) ==
    [x \in (DOMAIN mm) \cup {k} |-> IF x \in DOMAIN mm THEN mm[x] ELSE v]

\* m[k] = v
MapSet(mm, k, v) == [x \in (DOMAIN mm) \cup {k} |-> IF x = k THEN v ELSE mm[x]]

RECURSIVE indexLoop(_, _, _)
\* the loop of main.go 165-175 from line j on
indexLoop(ls, j, mm) ==
    IF j > Len(ls) THEN mm
    ELSE IF isCommentOrBlank(ls[j]) THEN indexLoop(ls, j + 1, mm)
    ELSE LET kv == parseKV(ls[j])
         IN IF ~kv.ok THEN indexLoop(ls, j + 1, mm)
            ELSE indexLoop(ls, j + 1, MapSet(mm, kv.key, j))

indexLines(ls) == indexLoop(ls, 1, EmptyIndex)

\* where the loop over want goes after entry j
AfterEntry(w, j) == IF j + 1 > Len(w) THEN "flipped" ELSE "flip"

\* main.go 155-175: the file is read, split and indexed
ReadOk ==
    /\ pc = "read"
    /\ \E c \in RepoContents :
          /\ disk' = c
          /\ b' = c
          /\ lines' = Split(c, NL)
          /\ m' = indexLines(Split(c, NL))
    /\ want' = splitCSV(adaptersCSV, <<>>)
    /\ i' = 1
    /\ changes' = <<>>
    /\ skipped' = <<>>
    /\ ran' = Append(ran, "read")
    /\ pc' = AfterEntry(splitCSV(adaptersCSV, <<>>), 0)
    /\ UNCHANGED <<flags, adaptersFile, otherVars, propPath, err>>

ReadFail ==
    /\ pc = "read"
    /\ ran' = Append(ran, "read")
    /\ Fail("read")
    /\ UNCHANGED <<flags, adaptersFile, otherVars, propPath, disk, loopVars>>

\* newValue with the case "1" giving "1"
newValueStuck(t) ==
    IF t = <<"0">> THEN <<"1">>
    ELSE IF t = <<"1">> THEN <<"1">>
    ELSE <<>>

\* newValue without the default case
newValueNoDefault(t) == IF t = <<"0">> THEN <<"1">> ELSE <<"0">>

\* the switch of main.go 185-193: the new value, <<>> for the default case
newValue(t) ==
    IF t = <<"0">> THEN <<"1">>
    ELSE IF t = <<"1">> THEN <<"0">>
    ELSE <<>>

\* rewriteLine with a line terminator
rewriteLineNewline(k, newV) == k \o <<"=">> \o newV \o <<NL>>

\* rewriteLine with spaces around the separator
rewriteLineSpaced(k, newV) == k \o <<SP, "=", SP>> \o newV

\* rewriteLine with the separator ":"
rewriteLineColon(k, newV) == k \o <<":">> \o newV

\* fmt.Sprintf("%s=%s", k, newV)
rewriteLine(k, newV) == k \o <<"=">> \o newV

\* one pass of the loop body of main.go 178-195 for adapter a, on lines ls
\* with index mm: the lines after it, and the change or warning it adds
flipEntry(ls, mm, a, path) ==
    IF a \notin DOMAIN mm
    THEN [lines |-> ls, changes |-> <<>>, skipped |-> << <<a, "not found">> >>]
    ELSE LET idx == mm[a]
             kv == parseKV(ls[idx])
             newV == newValue(TrimSpace(kv.val))
         IN IF newV = <<>>
            THEN [lines |-> ls, changes |-> <<>>,
                  skipped |-> << <<kv.key, "non-binary value">> >>]
            ELSE [lines |-> [ls EXCEPT ![idx] = rewriteLine(kv.key, newV)],
                  changes |-> << [Adapter |-> kv.key,
                                  OldValue |-> TrimSpace(kv.val),
                                  NewValue |-> newV,
                                  FilePath |-> path] >>,
                  skipped |-> <<>>]

RECURSIVE toggleLoop(_, _, _, _)
\* the loop of main.go 177-196 over the adapters w
toggleLoop(st, mm, w, path) ==
    IF w = <<>> THEN st
    ELSE LET r == flipEntry(st.lines, mm, Head(w), path)
         IN toggleLoop([lines |-> r.lines,
                        changes |-> st.changes \o r.changes,
                        skipped |-> st.skipped \o r.skipped],
                       mm, Tail(w), path)

\* main.go 160-196 on the bytes content for the --adapters argument csv:
\* the lines, the changes and the warnings
toggle(content, csv, path) ==
    toggleLoop([lines |-> Split(content, NL), changes |-> <<>>, skipped |-> <<>>],
               indexLines(Split(content, NL)), splitCSV(csv, <<>>), path)

\* LoopBody leaving the loop at the first adapter it skips
LoopBodyStopAtSkip ==
    LET r == flipEntry(lines, m, want[i], propPath)
    IN /\ lines' = r.lines
       /\ changes' = changes \o r.changes
       /\ skipped' = skipped \o r.skipped
       /\ i' = i + 1
       /\ pc' = IF r.changes = <<>> THEN "flipped" ELSE AfterEntry(want, i)
       /\ UNCHANGED <<flags, adaptersFile, otherVars, propPath, disk, b, want, m, ran, err>>

\* the loop body runs for want[i]
LoopBody ==
    LET r == flipEntry(lines, m, want[i], propPath)
    IN /\ lines' = r.lines
       /\ changes' = changes \o r.changes
       /\ skipped' = skipped \o r.skipped
       /\ i' = i + 1
       /\ pc' = AfterEntry(want, i)
       /\ UNCHANGED <<flags, adaptersFile, otherVars, propPath, disk, b, want, m, ran, err>>

\* main.go 178-182: the adapter is not in the index
SkipNotFound ==
    /\ pc = "flip"
    /\ want[i] \notin DOMAIN m
    /\ LoopBody

\* main.go 183-193: the value of the indexed line is neither 0 nor 1
SkipNonBinary ==
    /\ pc = "flip"
    /\ want[i] \in DOMAIN m
    /\ newValue(TrimSpace(parseKV(lines[m[want[i]]]).val)) = <<>>
    /\ LoopBody

\* main.go 183-195: the indexed line is rewritten and the change recorded
FlipLine ==
    /\ pc = "flip"
    /\ want[i] \in DOMAIN m
    /\ newValue(TrimSpace(parseKV(lines[m[want[i]]]).val)) # <<>>
    /\ LoopBody

\* main.go 198-207: nothing to change
NoChanges ==
    /\ pc = "flipped"
    /\ Len(changes) = 0
    /\ ran' = Append(ran, "nochanges")
    /\ pc' = "done"
    /\ UNCHANGED <<flags, adaptersFile, otherVars, propPath, disk, loopVars, err>>

\* main.go 209-211: the planned changes are printed, nothing else is done
DryRunReport ==
    /\ pc = "flipped"
    /\ Len(changes) # 0
    /\ dryRun
    /\ ran' = Append(ran, "report")
    /\ pc' = "done"
    /\ err' \in {"none", "report"}
    /\ UNCHANGED <<flags, adaptersFile, otherVars, propPath, disk, loopVars>>

\* writeGuard without the return of main.go 198-207
writeGuardNoEmptyCheck == ~dryRun

\* writeGuard without the return of main.go 209-211
writeGuardNoDryRun == Len(changes) # 0

\* main.go 213: whether RunE gets to os.WriteFile
writeGuard == Len(changes) # 0 /\ ~dryRun

\* main.go 213-215: os.WriteFile of the joined lines
WriteOk ==
    /\ pc = "flipped"
    /\ writeGuard
    /\ disk' = Join(lines, NL)
    /\ ran' = Append(ran, "write")
    /\ pc' = "report"
    /\ UNCHANGED <<flags, adaptersFile, otherVars, propPath, loopVars, err>>

\* afterWriteError with the error dropped
afterWriteErrorContinue == "report"

\* where RunE goes when os.WriteFile returns an error
afterWriteError == "done"

WriteFail ==
    /\ pc = "flipped"
    /\ writeGuard
    /\ ran' = Append(ran, "write")
    /\ pc' = afterWriteError
    /\ err' = "write"
    /\ UNCHANGED <<flags, adaptersFile, otherVars, propPath, disk, loopVars>>

\* an external step that succeeds, going to next, or whose error is returned
RunStep(name, next) ==
    /\ ran' = Append(ran, name)
    /\ \/ pc' = next /\ UNCHANGED err
       \/ Fail(name)
    /\ UNCHANGED <<flags, adaptersFile, otherVars, propPath, disk, loopVars>>

\* main.go 221: what follows the report
afterReport == IF doCommit THEN "checkout" ELSE "done"

\* main.go 238: what follows the push
afterPush == IF doPR THEN "pr" ELSE "done"

\* main.go 217-219
PrintReport == pc = "report" /\ RunStep("report", afterReport)

\* main.go 225: git checkout -b
Checkout == pc = "checkout" /\ RunStep("checkout", "add")

\* Add going on to the push, without the commit
AddThenPush == pc = "add" /\ RunStep("add", "push")

\* main.go 228: git add
Add == pc = "add" /\ RunStep("add", "commit")

\* main.go 232: git commit
Commit == pc = "commit" /\ RunStep("commit", "push")

\* main.go 235: git push
Push == pc = "push" /\ RunStep("push", afterPush)

\* main.go 241: gh pr create
PrCreate == pc = "pr" /\ RunStep("pr", "done")

Next ==
    \/ Invoke
    \/ Validate
    \/ CloneOk
    \/ CloneFail
    \/ CheckEnv
    \/ ReadOk
    \/ ReadFail
    \/ SkipNotFound
    \/ SkipNonBinary
    \/ FlipLine
    \/ NoChanges
    \/ DryRunReport
    \/ WriteOk
    \/ WriteFail
    \/ PrintReport
    \/ Checkout
    \/ Add
    \/ Commit
    \/ Push
    \/ PrCreate

Spec == Init /\ [][Next]_vars

(* ---- the toggle alone: the state after the read, for every content ---- *)

InitToggle ==
    /\ repo = "org/repo"
    /\ envName = <<"d">>
    /\ adaptersCSV \in AdapterArgs \ {<<>>}
    /\ doCommit = FALSE
    /\ doPR = FALSE
    /\ dryRun = TRUE
    /\ adaptersFile = NoFile
    /\ propPath = PathJoin(<<tmpDir, EnvDirName, Clean(envName), PropsName>>)
    /\ disk \in Contents
    /\ b = disk
    /\ lines = Split(b, NL)
    /\ m = indexLines(lines)
    /\ want = splitCSV(adaptersCSV, <<>>)
    /\ i = 1
    /\ changes = <<>>
    /\ skipped = <<>>
    /\ ran = <<"clone", "read">>
    /\ err = "none"
    /\ pc = AfterEntry(want, 0)
    /\ OthersIdle

NextToggle ==
    \/ SkipNotFound
    \/ SkipNonBinary
    \/ FlipLine

SpecToggle == InitToggle /\ [][NextToggle]_vars

\* the same loop on the files of the repository, with every request
InitOrder ==
    /\ repo = "org/repo"
    /\ envName = <<"d">>
    /\ adaptersCSV \in AdapterArgs \ {<<>>}
    /\ doCommit = FALSE
    /\ doPR = FALSE
    /\ dryRun = TRUE
    /\ adaptersFile = NoFile
    /\ propPath = PathJoin(<<tmpDir, EnvDirName, Clean(envName), PropsName>>)
    /\ disk \in RepoContents
    /\ b = disk
    /\ lines = Split(b, NL)
    /\ m = indexLines(lines)
    /\ want = splitCSV(adaptersCSV, <<>>)
    /\ i = 1
    /\ changes = <<>>
    /\ skipped = <<>>
    /\ ran = <<"clone", "read">>
    /\ err = "none"
    /\ pc = AfterEntry(want, 0)
    /\ OthersIdle

SpecOrder == InitOrder /\ [][NextToggle]_vars


(* ----------------------- adapter store (write) -------------------------- *)

\* main.go 884-907: what storeAdapters writes for --adapters, or the error
storeAdapters(adapters) ==
    LET adapterList == splitCSV(adapters, <<>>)
        validAdapters == [j \in 1..Len(adapterList) |-> TrimSpace(adapterList[j])]
    IN IF Len(adapterList) = 0
       THEN [ok |-> FALSE, content |-> NoFile]
       ELSE IF \E j \in 1..Len(adapterList) : TrimSpace(adapterList[j]) = <<>>
            THEN [ok |-> FALSE, content |-> NoFile]
            ELSE [ok |-> TRUE, content |-> Join(validAdapters, NL) \o <<NL>>]

\* values of --adapters of set-adapters
SetArgs ==
    { <<"a">>,
      <<SP, "b", SP, ",", "a">>,
      <<"a", ",", ",", "a">>,
      <<"#", "x">>,
      <<"a", ",", "#", "x", ",", "b">>,
      <<"a", NL, "b">>,
      <<SP, ",">> }

\* command lines of set-adapters: --list, --clear, both, none, --adapters
SetCmds ==
    { [list |-> TRUE, clear |-> FALSE, adapters |-> <<>>],
      [list |-> TRUE, clear |-> TRUE, adapters |-> <<"a">>],
      [list |-> FALSE, clear |-> TRUE, adapters |-> <<>>],
      [list |-> FALSE, clear |-> TRUE, adapters |-> <<"a">>],
      [list |-> FALSE, clear |-> FALSE, adapters |-> <<>>] }
        \cup { [list |-> FALSE, clear |-> FALSE, adapters |-> a] : a \in SetArgs }

\* no command has run and ~/.gh-aca-utils/adapters.txt does not exist
InitStore ==
    /\ pc = "idle"
    /\ repo = ""
    /\ envName = <<>>
    /\ adaptersCSV = <<>>
    /\ doCommit = FALSE
    /\ doPR = FALSE
    /\ dryRun = TRUE
    /\ adaptersFile = NoFile
    /\ propPath = <<>>
    /\ disk = NoFile
    /\ b = <<>>
    /\ lines = <<>>
    /\ want = <<>>
    /\ m = EmptyIndex
    /\ i = 1
    /\ changes = <<>>
    /\ skipped = <<>>
    /\ ran = <<>>
    /\ err = "none"
    /\ OthersIdle

\* main.go 269-283, 884-907, 944-957: one run of set-adapters
SetAdapters ==
    /\ pc = "idle"
    /\ Len(cmds) < MaxCmds
    /\ \E c \in SetCmds :
          LET r == storeAdapters(c.adapters)
              done(ok) == cmds' = Append(cmds, [list |-> c.list, clear |-> c.clear,
                                               adapters |-> c.adapters, ok |-> ok])
          IN IF c.list
             THEN done(TRUE) /\ UNCHANGED adaptersFile
             ELSE IF c.clear
                  THEN done(TRUE) /\ adaptersFile' = NoFile
                  ELSE IF c.adapters = <<>>
                       THEN done(FALSE) /\ UNCHANGED adaptersFile
                       ELSE IF r.ok
                            THEN done(TRUE) /\ adaptersFile' = r.content
                            ELSE done(FALSE) /\ UNCHANGED adaptersFile
    /\ UNCHANGED <<pc, flags, propPath, disk, loopVars, ran, err, callVars, scanVars,
                   branchVars>>

\* flip-adapters is run with --repo and --env and without --adapters
InvokeStored ==
    /\ pc = "idle"
    /\ repo' = "org/repo"
    /\ envName' = <<"d">>
    /\ adaptersCSV' = <<>>
    /\ pc' = "validate"
    /\ UNCHANGED <<doCommit, doPR, dryRun, adaptersFile, otherVars, propPath, disk,
                   loopVars, ran, err>>

\* main.go 136-250: the rest of RunE leaves the adapter file alone; the
\* process ends and the next command starts with fresh flags
Exit ==
    /\ pc \in {"clone", "done"}
    /\ pc' = "idle"
    /\ repo' = ""
    /\ envName' = <<>>
    /\ adaptersCSV' = <<>>
    /\ err' = "none"
    /\ UNCHANGED <<doCommit, doPR, dryRun, adaptersFile, otherVars, propPath, disk,
                   loopVars, ran>>

NextStore ==
    \/ SetAdapters
    \/ InvokeStored
    \/ Validate
    \/ Exit

SpecStore == InitStore /\ [][NextStore]_vars

(* ---------- the path of the properties file, for every --env ----------- *)

\* the non-empty --env arguments of at most MaxEnvLen characters
EnvNames ==
    UNION { [1..n -> { ".", "/", "\\", "d" }] : n \in 1..MaxEnvLen }

\* main.go 138-143: the flags are valid and the checkout is in tmpDir
InitEnv ==
    /\ pc = "env"
    /\ repo = "org/repo"
    /\ envName \in EnvNames
    /\ adaptersCSV = <<"a">>
    /\ doCommit = FALSE
    /\ doPR = FALSE
    /\ dryRun = TRUE
    /\ adaptersFile = NoFile
    /\ propPath = <<>>
    /\ disk = NoFile
    /\ b = <<>>
    /\ lines = <<>>
    /\ want = <<>>
    /\ m = EmptyIndex
    /\ i = 1
    /\ changes = <<>>
    /\ skipped = <<>>
    /\ ran = <<"clone">>
    /\ err = "none"
    /\ OthersIdle

SpecEnv == InitEnv /\ [][CheckEnv]_vars

(* ------------- the helper functions, called on their own ---------------- *)

\* isCommentOrBlank and parseKV on every line of at most MaxLineLen characters
\* and on lines of TestCommentDetection
ClassifyCalls ==
    LET ClassChars == { "#", ";", "a", "=", ":", SP, VT }
        ClassLines == UNION { [1..n -> ClassChars] : n \in 0..MaxLineLen }
        TestLines == { <<SP, SP, "#", SP, "a", ":", SP, "b">>,
                       <<"\t", "#", SP, "a", "=", "b">>,
                       <<"a", "=", "b", SP, "#", SP, "c">>,
                       <<";", ";">> }
    IN { [fn |-> "classify", line |-> l] : l \in ClassLines \cup TestLines }

\* looksLikePort on the keys and values of TestLooksLikePort and
\* TestPortBoundaryConditions, on every value of at most MaxDigits digits, and
\* on quoted, spaced and non-numeric values
PortCalls ==
    LET Keys == { <<"p", "o", "r", "t">>,
                   <<"P", "O", "R", "T">>,
                   <<"h", "t", "t", "p", "P", "o", "r", "t">>,
                   <<"d", "a", "t", "a", "b", "a", "s", "e", "_", "p", "o",
                     "r", "t">>,
                   <<"t", "i", "m", "e", "o", "u", "t">>,
                   <<"p", "o", "r">>,
                   <<"p", ".", "o", "r", "t">>,
                   <<>> }
        DigitValues == UNION { [1..n -> {"0", "9"}] : n \in 0..MaxDigits }
        OtherValues == { <<QUOTE, "8", "0", "8", "0", QUOTE>>,
                     <<"'", "3", "0", "0", "0", "'">>,
                     <<QUOTE, "8", "0">>,
                     <<"'", "8", "0", QUOTE>>,
                     <<SP, "8", "0", SP>>,
                     <<VT, "8", "0">>,
                     <<QUOTE, SP, "8", "0", QUOTE>>,
                     <<QUOTE, "'", "8", "0", "'", QUOTE>>,
                     <<QUOTE, "1", QUOTE>>,
                     <<QUOTE, "1", "2", "3", "4", "5", "6", QUOTE>>,
                     <<"a", "b", "c">>,
                     <<"8", "a", "8", "0">>,
                     <<"-", "8", "0">>,
                     <<"8", "0", ".", "0">>,
                     <<QUOTE, QUOTE>> }
    IN { [fn |-> "looksLikePort", key |-> k, value |-> v] :
            k \in Keys, v \in DigitValues \cup OtherValues }

Calls == ClassifyCalls \cup PortCalls

\* one helper call is about to be made
InitCall ==
    /\ pc = "idle"
    /\ repo = ""
    /\ envName = <<>>
    /\ adaptersCSV = <<>>
    /\ doCommit = FALSE
    /\ doPR = FALSE
    /\ dryRun = TRUE
    /\ adaptersFile = NoFile
    /\ propPath = <<>>
    /\ disk = NoFile
    /\ b = <<>>
    /\ lines = <<>>
    /\ want = <<>>
    /\ m = EmptyIndex
    /\ i = 1
    /\ changes = <<>>
    /\ skipped = <<>>
    /\ ran = <<>>
    /\ err = "none"
    /\ call \in Calls
    /\ ret = <<>>
    /\ tree = <<>>
    /\ files = <<>>
    /\ fi = 1
    /\ pending = <<>>
    /\ lineNo = 0
    /\ rows = <<>>
    /\ warnings = <<>>
    /\ cmds = <<>>
    /\ remote = <<>>
    /\ branches = <<>>
    /\ bi = 1
    /\ allRows = <<>>

\* main.go 165-170: a line goes through isCommentOrBlank and parseKV
Classify ==
    /\ call.fn = "classify"
    /\ ret = <<>>
    /\ ret' = << [comment |-> isCommentOrBlank(call.line),
                  kv |-> parseKV(call.line)] >>
    /\ UNCHANGED <<pc, flags, adaptersFile, propPath, disk, loopVars, ran, err, cmds, branchVars,
                   call, scanVars>>

\* main.go 539: looksLikePort(k, v)
CallLooksLikePort ==
    /\ call.fn = "looksLikePort"
    /\ ret = <<>>
    /\ ret' = << looksLikePort(call.key, call.value) >>
    /\ UNCHANGED <<pc, flags, adaptersFile, propPath, disk, loopVars, ran, err, cmds, branchVars,
                   call, scanVars>>

NextCall ==
    \/ Classify
    \/ CallLooksLikePort

SpecCall == InitCall /\ [][NextCall]_vars

(* ------------------------------- ip-port -------------------------------- *)

\* byte order of strings over the characters of the paths; with walk = TRUE "/" sorts before every character,
\* which is the order of a walk that reads each directory sorted by name
RECURSIVE StrLess(_, _, _)
StrLess(x, y, walk) ==
    IF x = <<>> THEN y # <<>>
    ELSE IF y = <<>> THEN FALSE
    ELSE IF Head(x) = Head(y) THEN StrLess(Tail(x), Tail(y), walk)
    ELSE LET bytes == <<".", "/", "a", "b", "c", "p">>
             ord(c) == IF walk /\ c = "/" THEN 0
                       ELSE CHOOSE n \in 1..Len(bytes) : bytes[n] = c
         IN ord(Head(x)) < ord(Head(y))

RECURSIVE sortedSeq(_, _)
\* the strings of the set S in ascending order
sortedSeq(S, walk) ==
    IF S = {} THEN <<>>
    ELSE LET least == CHOOSE x \in S : \A y \in S \ {x} : StrLess(x, y, walk)
         IN <<least>> \o sortedSeq(S \ {least}, walk)

\* sortStrings leaving the order of the walk
sortStringsKeepOrder(fs) == fs

\* sort.Strings(files)
sortStrings(fs) == sortedSeq({ fs[n] : n \in 1..Len(fs) }, FALSE)

\* the paths filepath.WalkDir hands to the callback that pass the
\* include/exclude patterns, in the order of the walk
walkDir(t) == sortedSeq({ p \in DOMAIN t : t[p].selected }, TRUE)

\* the tokens bufio.ScanLines gives for a content: the text between two "\n"
\* without a trailing "\r"; no token for the empty text after the last "\n"
scanLines(content) ==
    LET parts == Split(content, NL)
        n == Len(parts)
        kept == IF parts[n] = <<>> THEN SubSeq(parts, 1, n - 1) ELSE parts
        dropCR(l) ==
            IF l # <<>> /\ l[Len(l)] = CR THEN SubSeq(l, 1, Len(l) - 1) ELSE l
    IN [j \in 1..Len(kept) |-> dropCR(kept[j])]

NoFields == [IPKey |-> <<>>, IPValue |-> <<>>, PortKey |-> <<>>, PortValue |-> <<>>]

\* kvFields keeping the quotes of the value
kvFieldsRaw(mm) ==
    LET k == mm[2]
        v == TrimSpace(mm[3])
        ip == looksLikeIP(v)
        port == looksLikePort(k, v)
    IN [IPKey |-> IF ip THEN k ELSE <<>>,
        IPValue |-> IF ip THEN v ELSE <<>>,
        PortKey |-> IF port THEN k ELSE <<>>,
        PortValue |-> IF port THEN v ELSE <<>>]

\* main.go 534-541: the fields of a line kvRe matches as mm
kvFields(mm) ==
    LET k == mm[2]
        v == TrimSpace(mm[3])
        ip == looksLikeIP(v)
        port == looksLikePort(k, v)
    IN [IPKey |-> IF ip THEN k ELSE <<>>,
        IPValue |-> IF ip THEN stripQuotes(v) ELSE <<>>,
        PortKey |-> IF port THEN k ELSE <<>>,
        PortValue |-> IF port THEN stripQuotes(v) ELSE <<>>]

\* main.go 542-549: the fields of a line kvRe does not match
textFields(line) ==
    LET ip == firstIP(line)
        p == findInlinePort(line)
    IN [IPKey |-> <<>>,
        IPValue |-> ip,
        PortKey |-> IF p.ok THEN p.key ELSE <<>>,
        PortValue |-> IF p.ok THEN p.val ELSE <<>>]

\* main.go 533-549
lineFields(line) ==
    LET mm == kvRe(line)
    IN IF Len(mm) = 3 THEN kvFields(mm) ELSE textFields(line)

\* rowsOf without the test of main.go 551
rowsOfAlways(fields, rel, n) ==
    << [IPKey |-> fields.IPKey, IPValue |-> fields.IPValue,
        PortKey |-> fields.PortKey, PortValue |-> fields.PortValue,
        RelPath |-> rel, LineNumber |-> n] >>

\* main.go 551-553: the rows a line adds
rowsOf(fields, rel, n) ==
    IF fields # NoFields
    THEN << [IPKey |-> fields.IPKey, IPValue |-> fields.IPValue,
             PortKey |-> fields.PortKey, PortValue |-> fields.PortValue,
             RelPath |-> rel, LineNumber |-> n] >>
    ELSE <<>>

(* the lines and the trees ip-port is run on *)

\* the lines of the files: lines kvRe matches, lines it does not match,
\* comment lines and blank lines (TestScanForIPPort_Integration, TestFirstIP,
\* TestLooksLikePort, TestFindInlinePort)
ScanLinePool ==
    { <<"s", "e", "r", "v", "e", "r", ".", "h", "o", "s", "t", "=", "1", "9",
        "2", ".", "1", "6", "8", ".", "1", ".", "1", "0", "0">>,
      <<"d", "a", "t", "a", "b", "a", "s", "e", ".", "p", "o", "r", "t", "=",
        "5", "4", "3", "2">>,
      <<SP, SP, "h", "o", "s", "t", ":", SP, QUOTE, "2", "0", "3", ".", "0",
        ".", "1", "1", "3", ".", "1", QUOTE>>,
      <<"h", "t", "t", "p", "s", "P", "o", "r", "t", ":", SP, QUOTE, "3", "4",
        "4", "3", QUOTE>>,
      <<"t", "i", "m", "e", "o", "u", "t", "=", "3", "0">>,
      <<"P", "O", "R", "T", "=", "8", "0">>,
      <<"p", "o", "r", "t", "=", "1">>,
      <<"p", "o", "r", "t", "=", "1", "2", "3", "4", "5", "6">>,
      <<"p", "o", "r", "t", "=", "0", "0">>,
      <<"p", "o", "r", "t", "=", "9", "9", "9", "9", "9">>,
      <<"a", "=", ":", ":", "1">>,
      <<"a", "p", "i", ".", "p", "o", "r", "t", "=", "1", "0", ".", "0", ".",
        "0", ".", "5", ":", "8", "0", "8", "0">>,
      <<"u", "r", "l", "=", "'", "1", "0", ".", "0", ".", "0", ".", "1", "'">>,
      <<"x", "=", QUOTE, "8", "0">>,
      <<"1", ".", "1", ".", "1", ".", "1", ":", "8", "0", "8", "0">>,
      <<SP, "a", ".", "p", "o", "r", "t", SP, "=", SP, "'", "2", "2", "'",
        SP>>,
      <<"k", "=", "s", "e", "e", SP, "1", "0", ".", "0", ".", "0", ".", "1">>,
      <<"e", "x", "p", "o", "r", "t", "=", "2", "2">>,
      <<"p", "o", "r", "t", "=", "8", "0", VT, "1">>,
      <<"s", "e", "r", "v", "i", "c", "e", ":">>,
      <<"c", "o", "n", "n", "e", "c", "t", SP, "t", "o", SP, "1", "9", "2",
        ".", "1", "6", "8", ".", "1", ".", "1", ":", "8", "0", "8", "0">>,
      <<":", ":", "1", SP, "a", "n", "d", SP, "1", "0", ".", "0", ".", "0",
        ".", "1">>,
      <<"s", "e", "e", SP, "f", "e", "8", "0", ":", ":", "1">>,
      <<"l", "i", "s", "t", "e", "n", SP, "p", "o", "r", "t", SP, "8", "0",
        "8", "0", SP, "o", "n", SP, "1", "0", ".", "0", ".", "0", ".", "1">>,
      <<"p", "o", "r", "t", SP, "8", "0">>,
      <<"h", "e", "l", "l", "o">>,
      <<"1", ".", "2", ".", "3", ".", "2", "5", "6">>,
      <<VT, "p", "o", "r", "t", "=", "8", "0">>,
      <<"#", SP, "C", "o", "m", "m", "e", "n", "t", SP, "w", "i", "t", "h",
        SP, "I", "P", SP, "1", "7", "2", ".", "1", "6", ".", "0", ".", "1",
        SP, "s", "h", "o", "u", "l", "d", SP, "b", "e", SP, "i", "g", "n",
        "o", "r", "e", "d">>,
      <<"#", SP, "p", "o", "r", "t", "=", "8", "0", "8", "0">>,
      <<";", SP, "h", "o", "s", "t", "=", "1", "0", ".", "0", ".", "0", ".",
        "1">>,
      <<"#">>,
      <<SP, SP, "#", SP, "a", ":", SP, "b">>,
      <<>>,
      <<SP, "\t">>,
      <<VT>> }

\* contents of the files of a tree: with and without a final "\n", with blank
\* lines, a comment, "\r\n", and lines that give no row
ScanContents ==
    { <<"h", "=", "1", ".", "1", ".", "1", ".", "1", NL>>,
      <<NL, "x", NL, "p", "o", "r", "t", SP, "8", "0">>,
      <<"#", CR, NL, ":", ":", "1", NL, NL>>,
      <<>> }

\* paths under the root, relative to it
Paths ==
    { <<"a", ".", "p">>,
      <<"a", "/", "b">>,
      <<"c">> }

\* the trees of at most MaxFiles files, and the trees of one file of one line;
\* a file is selected by the include and exclude patterns or not, and its
\* content is NoFile when it cannot be opened
Trees ==
    LET Entries ==
            { [selected |-> TRUE, content |-> c] : c \in ScanContents \cup {NoFile} }
                \cup { [selected |-> FALSE,
                        content |-> <<"h", "=", "1", ".", "1", ".", "1", ".", "1">>] }
    IN UNION { [P -> Entries] :
                  P \in { Q \in SUBSET Paths : Cardinality(Q) <= MaxFiles } }
           \cup { [P \in {<<"c">>} |-> [selected |-> TRUE, content |-> l]] :
                     l \in ScanLinePool }

\* scanForIPPort is called on a tree
InitScan ==
    /\ pc = "walk"
    /\ repo = "org/repo"
    /\ envName = <<>>
    /\ adaptersCSV = <<>>
    /\ doCommit = FALSE
    /\ doPR = FALSE
    /\ dryRun = TRUE
    /\ adaptersFile = NoFile
    /\ propPath = <<>>
    /\ disk = NoFile
    /\ b = <<>>
    /\ lines = <<>>
    /\ want = <<>>
    /\ m = EmptyIndex
    /\ i = 1
    /\ changes = <<>>
    /\ skipped = <<>>
    /\ ran = <<>>
    /\ err = "none"
    /\ call = [fn |-> "none"]
    /\ ret = <<>>
    /\ tree \in Trees
    /\ files = <<>>
    /\ fi = 1
    /\ pending = <<>>
    /\ lineNo = 0
    /\ rows = <<>>
    /\ warnings = <<>>
    /\ cmds = <<>>
    /\ remote = <<>>
    /\ branches = <<>>
    /\ bi = 1
    /\ allRows = <<>>

\* main.go 473-499: the walk collects the selected files; an error handed to
\* the callback ends the walk with the files collected so far and a warning
Walk ==
    /\ pc = "walk"
    /\ \E k \in 0..Len(walkDir(tree)) :
          /\ files' = SubSeq(walkDir(tree), 1, k)
          /\ warnings' = IF k < Len(walkDir(tree))
                          THEN <<[about |-> "walk", path |-> <<>>]>>
                          ELSE <<>>
    /\ pc' = "sort"
    /\ UNCHANGED <<flags, adaptersFile, propPath, disk, loopVars, ran, err, cmds, branchVars,
                   callVars, tree, fi, pending, lineNo, rows>>

\* main.go 501
Sort ==
    /\ pc = "sort"
    /\ files' = sortStrings(files)
    /\ fi' = 1
    /\ pc' = "open"
    /\ UNCHANGED <<flags, adaptersFile, propPath, disk, loopVars, ran, err, cmds, branchVars,
                   callVars, tree, pending, lineNo, rows, warnings>>

\* main.go 514-525: the file opens
OpenOk ==
    /\ pc = "open"
    /\ fi <= Len(files)
    /\ tree[files[fi]].content # NoFile
    /\ pending' = scanLines(tree[files[fi]].content)
    /\ lineNo' = 0
    /\ pc' = "line"
    /\ UNCHANGED <<flags, adaptersFile, propPath, disk, loopVars, ran, err, cmds, branchVars,
                   callVars, tree, files, fi, rows, warnings>>

\* OpenFail ending the scan of the files at the file that does not open
OpenFailStop ==
    /\ pc = "open"
    /\ fi <= Len(files)
    /\ tree[files[fi]].content = NoFile
    /\ fi' = Len(files) + 1
    /\ UNCHANGED <<pc, flags, adaptersFile, propPath, disk, loopVars, ran, err, cmds, branchVars,
                   callVars, tree, files, pending, lineNo, rows, warnings>>

\* main.go 514-517: os.Open fails and the file is left out, nothing is
\* written to stderr
OpenFail ==
    /\ pc = "open"
    /\ fi <= Len(files)
    /\ tree[files[fi]].content = NoFile
    /\ fi' = fi + 1
    /\ UNCHANGED <<pc, flags, adaptersFile, propPath, disk, loopVars, ran, err, cmds, branchVars,
                   callVars, tree, files, pending, lineNo, rows, warnings>>

\* one pass of the loop of main.go 526-554 on the next line of the file
lineStep(new) ==
    /\ lineNo' = lineNo + 1
    /\ pending' = Tail(pending)
    /\ rows' = rows \o new
    /\ UNCHANGED <<pc, flags, adaptersFile, propPath, disk, loopVars, ran, err, cmds, branchVars,
                   callVars, tree, files, fi, warnings>>

\* SkipBlank with lineNo counting the non-blank lines only
SkipBlankUncounted ==
    /\ pc = "line"
    /\ pending # <<>>
    /\ TrimSpace(Head(pending)) = <<>>
    /\ pending' = Tail(pending)
    /\ UNCHANGED <<pc, flags, adaptersFile, propPath, disk, loopVars, ran, err, cmds, branchVars,
                   callVars, tree, files, fi, lineNo, rows, warnings>>

\* main.go 529-531
SkipBlank ==
    /\ pc = "line"
    /\ pending # <<>>
    /\ TrimSpace(Head(pending)) = <<>>
    /\ lineStep(<<>>)

\* main.go 534-541, 551-553
ScanKV ==
    /\ pc = "line"
    /\ pending # <<>>
    /\ TrimSpace(Head(pending)) # <<>>
    /\ Len(kvRe(Head(pending))) = 3
    /\ lineStep(rowsOf(lineFields(Head(pending)), files[fi], lineNo + 1))

\* main.go 542-549, 551-553
ScanText ==
    /\ pc = "line"
    /\ pending # <<>>
    /\ TrimSpace(Head(pending)) # <<>>
    /\ Len(kvRe(Head(pending))) # 3
    /\ lineStep(rowsOf(lineFields(Head(pending)), files[fi], lineNo + 1))

\* main.go 526, 555: s.Scan() gives false and the file is closed
CloseFile ==
    /\ pc = "line"
    /\ pending = <<>>
    /\ fi' = fi + 1
    /\ pc' = "open"
    /\ UNCHANGED <<flags, adaptersFile, propPath, disk, loopVars, ran, err, cmds, branchVars,
                   callVars, tree, files, pending, lineNo, rows, warnings>>

\* main.go 557
Return ==
    /\ pc = "open"
    /\ fi > Len(files)
    /\ pc' = "scanned"
    /\ UNCHANGED <<flags, adaptersFile, propPath, disk, loopVars, ran, err, cmds, branchVars,
                   callVars, scanVars>>

NextScan ==
    \/ Walk
    \/ Sort
    \/ OpenOk
    \/ OpenFail
    \/ SkipBlank
    \/ ScanKV
    \/ ScanText
    \/ CloseFile
    \/ Return

SpecScan == InitScan /\ [][NextScan]_vars

(* ------------------------ ip-port --all-branches ------------------------ *)

\* main.go 526-554: the rows of the lines ls of the file at path, from line
\* number n on
RECURSIVE RowsOfLines(_, _, _)
RowsOfLines(ls, path, n) ==
    IF ls = <<>> THEN <<>>
    ELSE (IF TrimSpace(Head(ls)) = <<>> THEN <<>>
          ELSE rowsOf(lineFields(Head(ls)), path, n))
             \o RowsOfLines(Tail(ls), path, n + 1)

\* main.go 503-556: the rows of the files fs of the tree t, one file after
\* the other
RECURSIVE RowsOfFiles(_, _)
RowsOfFiles(t, fs) ==
    IF fs = <<>> THEN <<>>
    ELSE (IF t[Head(fs)].content = NoFile THEN <<>>
          ELSE RowsOfLines(scanLines(t[Head(fs)].content), Head(fs), 1))
             \o RowsOfFiles(t, Tail(fs))

\* scanForIPPort on the tree t when the walk ends after k files
scanForIPPort(t, k) == RowsOfFiles(t, sortStrings(SubSeq(walkDir(t), 1, k)))

\* main.go 637-653: the branches in what git branch -r printed
getAllBranches(output) ==
    LET RECURSIVE Loop(_, _)
        Loop(rest, out) ==
            IF rest = <<>> THEN out
            ELSE LET line == TrimSpace(Head(rest))
                     branch == TrimPrefix(TrimSpace(TrimPrefix(line, <<"*">>)),
                                          <<"o", "r", "i", "g", "i", "n", "/">>)
                 IN IF /\ line # <<>>
                       /\ ~Contains(line, <<"H", "E", "A", "D">>)
                       /\ branch # <<>>
                       /\ \A n \in 1..Len(out) : out[n] # branch
                    THEN Loop(Tail(rest), Append(out, branch))
                    ELSE Loop(Tail(rest), out)
    IN Loop(Split(TrimSpace(ReplaceCRLF(output)), NL), <<>>)

\* lines of git branch -r --format=%(refname:short), and a line as git
\* branch -r prints it without --format, on a terminal that ends lines "\r\n"
BranchLines ==
    { <<"o", "r", "i", "g", "i", "n", "/", "H", "E", "A", "D">>,
      <<"o", "r", "i", "g", "i", "n", "/", "m">>,
      <<SP, SP, "o", "r", "i", "g", "i", "n", "/", "m", CR>>,
      <<"o", "r", "i", "g", "i", "n", "/", "x">>,
      <<"o", "r", "i", "g", "i", "n", "/", "H", "E", "A", "D", "x">> }

\* the clone: what git branch -r prints (NoFile when git fails both times)
\* and, for a branch name, whether git checkout succeeds and the tree it
\* leaves; a name that is no branch of the clone does not check out
Remotes ==
    LET one == (<<"c">> :> [selected |-> TRUE,
                           content |-> <<"p", "o", "r", "t", "=", "8", "0", NL>>])
        two == (<<"a", ".", "p">> :> [selected |-> TRUE, content |-> NoFile])
                  @@ (<<"a", "/", "b">> :> [selected |-> TRUE,
                          content |-> <<NL, "p", "o", "r", "t", ":", "2", "2">>])
        Heads == { (<<"m">> :> [ok |-> TRUE, tree |-> one])
                      @@ (<<"x">> :> [ok |-> TRUE, tree |-> two]),
                   (<<"m">> :> [ok |-> FALSE, tree |-> one])
                      @@ (<<"x">> :> [ok |-> TRUE, tree |-> two]),
                   (<<"m">> :> [ok |-> TRUE, tree |-> two])
                      @@ (<<"x">> :> [ok |-> FALSE, tree |-> one]) }
        Outputs == { Join(ls, NL) \o <<NL>> :
                        ls \in UNION { [1..n -> BranchLines] : n \in 0..MaxBranchLines } }
    IN { [output |-> o, heads |-> h] : o \in Outputs \cup {NoFile}, h \in Heads }

\* main.go 584-589: cloneAllBranches has given the clone
InitBranches ==
    /\ pc = "branches"
    /\ repo = "org/repo"
    /\ envName = <<>>
    /\ adaptersCSV = <<>>
    /\ doCommit = FALSE
    /\ doPR = FALSE
    /\ dryRun = TRUE
    /\ adaptersFile = NoFile
    /\ propPath = <<>>
    /\ disk = NoFile
    /\ b = <<>>
    /\ lines = <<>>
    /\ want = <<>>
    /\ m = EmptyIndex
    /\ i = 1
    /\ changes = <<>>
    /\ skipped = <<>>
    /\ ran = <<>>
    /\ err = "none"
    /\ call = [fn |-> "none"]
    /\ ret = <<>>
    /\ tree = <<>>
    /\ files = <<>>
    /\ fi = 1
    /\ pending = <<>>
    /\ lineNo = 0
    /\ rows = <<>>
    /\ warnings = <<>>
    /\ cmds = <<>>
    /\ remote \in Remotes
    /\ branches = <<>>
    /\ bi = 1
    /\ allRows = <<>>

\* main.go 591-595, 622-656: the branches are listed
GetBranches ==
    /\ pc = "branches"
    /\ remote.output # NoFile
    /\ branches' = getAllBranches(remote.output)
    /\ bi' = 1
    /\ pc' = "checkout"
    /\ UNCHANGED <<flags, adaptersFile, propPath, disk, loopVars, ran, err, cmds,
                   callVars, scanVars, remote, allRows>>

\* main.go 592-594, 626-634: git branch -r fails with and without --format
GetBranchesFail ==
    /\ pc = "branches"
    /\ remote.output = NoFile
    /\ Fail("branches")
    /\ UNCHANGED <<flags, adaptersFile, propPath, disk, loopVars, ran, cmds,
                   callVars, scanVars, branchVars>>

\* whether git checkout of the branch succeeds in the clone
checksOut(branch) == branch \in DOMAIN remote.heads /\ remote.heads[branch].ok

\* CheckoutFail leaving the loop over the branches
CheckoutFailStop ==
    /\ pc = "checkout"
    /\ bi <= Len(branches)
    /\ ~checksOut(branches[bi])
    /\ warnings' = Append(warnings, [about |-> "checkout", path |-> branches[bi]])
    /\ bi' = Len(branches) + 1
    /\ UNCHANGED <<pc, flags, adaptersFile, propPath, disk, loopVars, ran, err, cmds,
                   callVars, tree, files, fi, pending, lineNo, rows,
                   remote, branches, allRows>>

\* main.go 603-606: the checkout fails, a warning is written and the loop
\* goes on
CheckoutFail ==
    /\ pc = "checkout"
    /\ bi <= Len(branches)
    /\ ~checksOut(branches[bi])
    /\ warnings' = Append(warnings, [about |-> "checkout", path |-> branches[bi]])
    /\ bi' = bi + 1
    /\ UNCHANGED <<pc, flags, adaptersFile, propPath, disk, loopVars, ran, err, cmds,
                   callVars, tree, files, fi, pending, lineNo, rows,
                   remote, branches, allRows>>

\* main.go 603, 608-616: the branch is checked out and scanned, and its rows
\* are appended with the branch in front of the path
ScanBranch ==
    /\ pc = "checkout"
    /\ bi <= Len(branches)
    /\ checksOut(branches[bi])
    /\ tree' = remote.heads[branches[bi]].tree
    /\ \E k \in 0..Len(walkDir(tree')) :
          LET found == scanForIPPort(tree', k)
          IN /\ rows' = [n \in 1..Len(found) |->
                           [found[n] EXCEPT !.RelPath =
                               <<"[">> \o branches[bi] \o <<"]", SP>> \o @]]
             /\ warnings' = IF k < Len(walkDir(tree'))
                             THEN Append(warnings, [about |-> "walk", path |-> <<>>])
                             ELSE warnings
    /\ allRows' = allRows \o rows'
    /\ bi' = bi + 1
    /\ UNCHANGED <<pc, flags, adaptersFile, propPath, disk, loopVars, ran, err, cmds,
                   callVars, files, fi, pending, lineNo, remote, branches>>

\* main.go 619: the rows of all branches are printed
PrintAllRows ==
    /\ pc = "checkout"
    /\ bi > Len(branches)
    /\ pc' = "done"
    /\ UNCHANGED <<flags, adaptersFile, propPath, disk, loopVars, ran, err, cmds,
                   callVars, scanVars, branchVars>>

NextBranches ==
    \/ GetBranches
    \/ GetBranchesFail
    \/ CheckoutFail
    \/ ScanBranch
    \/ PrintAllRows

SpecBranches == InitBranches /\ [][NextBranches]_vars

(* ------------------------------ properties ------------------------------ *)

\* the lines of the file as read
Orig == Split(b, NL)

\* the key/value lines of ls that hold key k
KeyLines(ls, k) ==
    { j \in 1..Len(ls) :
        LET kv == parseKV(ls[j])
        IN kv.ok /\ kv.key = k /\ ~isCommentOrBlank(ls[j]) }

Max(S) == CHOOSE x \in S : \A y \in S : y <= x

\* the last key/value line of ls that holds key k, 0 when there is none
LastLineOf(ls, k) ==
    LET occ == KeyLines(ls, k) IN IF occ = {} THEN 0 ELSE Max(occ)

\* the trimmed value of the last line of key k
ValueOf(ls, k) == TrimSpace(parseKV(ls[LastLineOf(ls, k)]).val)

IsBinary(v) == v \in { <<"0">>, <<"1">> }

Flippable(ls, k) ==
    LET last == LastLineOf(ls, k)
    IN last # 0 /\ IsBinary(TrimSpace(parseKV(ls[last]).val))

Ran(step) == \E n \in 1..Len(ran) : ran[n] = step

PublishSteps == { "checkout", "add", "commit", "push", "pr" }

Published == \E n \in 1..Len(ran) : ran[n] \in PublishSteps

\* C1: the content the toggle gives has as many lines as the content read, and
\* a line differs from the line read only if it is the last key/value line of
\* the key of some change record; every other line is the line read.
C1_Frame ==
    pc \in {"flip", "flipped"} =>
        \A out \in {Split(Join(lines, NL), NL)} :
        \A o \in {Orig} :
           /\ Len(out) = Len(o)
           /\ \A j \in 1..Len(o) :
                 j <= Len(out) /\ out[j] # o[j]
                    => j \in { LastLineOf(o, changes[n].Adapter) :
                                  n \in 1..Len(changes) }

C1_Witness ==
    /\ pc = "flipped"
    /\ Len(changes) = 1
    /\ Len(Orig) = 2
    /\ lines # Orig
    /\ \E j \in 1..2 : Orig[j] = <<"#", "a", "=", "0">> /\ lines[j] = Orig[j]

\* C2: every change record has old value 0 and new value 1, or old value 1 and
\* new value 0.
C2_BinaryChanges ==
    \A n \in 1..Len(changes) :
        \/ changes[n].OldValue = <<"0">> /\ changes[n].NewValue = <<"1">>
        \/ changes[n].OldValue = <<"1">> /\ changes[n].NewValue = <<"0">>

C2_Witness ==
    /\ pc = "flipped"
    /\ Len(changes) = 2
    /\ changes[1].OldValue = <<"0">>
    /\ changes[2].OldValue = <<"1">>

\* C3: a step of the loop for an adapter that has no key/value line, or whose
\* last line holds a value other than 0 and 1, adds no change record, changes
\* no line, adds one warning and goes on to the next adapter without an error.
C3_SkipNonFatal ==
    [][ (pc = "flip" /\ ~Flippable(lines, want[i])) =>
            /\ lines' = lines
            /\ changes' = changes
            /\ Len(skipped') = Len(skipped) + 1
            /\ i' = i + 1
            /\ pc' = (IF i < Len(want) THEN "flip" ELSE "flipped")
            /\ err' = "none" ]_vars

C3_Witness ==
    /\ pc = "flipped"
    /\ Len(want) = 2
    /\ Len(skipped) = 1
    /\ skipped[1] = <<want[1], "non-binary value">>
    /\ Len(changes) = 1
    /\ changes[1].Adapter = want[2]

\* C4 as claimed: after the loop either every requested adapter was flipped or
\* no line differs from the line read.
C4_AllOrNothing ==
    pc = "flipped" => (Len(changes) = Len(want) \/ lines = Orig)

\* C4 as amended: the loop handles the whole request; it flips every
\* requested entry whose last line holds 0 or 1 and skips every other entry,
\* and when no entry can be flipped no line differs from the line read.
C4_WholeRequest ==
    pc = "flipped" =>
        \A o \in {Orig} :
           /\ Len(changes) =
                  Cardinality({ n \in 1..Len(want) : Flippable(o, want[n]) })
           /\ Len(skipped) = Len(want) - Len(changes)
           /\ (Len(changes) = 0 => lines = o)

C4_Witness ==
    /\ pc = "flipped"
    /\ Len(want) = 2
    /\ ~Flippable(Orig, want[1])
    /\ Flippable(Orig, want[2])
    /\ Len(changes) = 1
    /\ lines # Orig

\* C5: the file is written at most once, only when the loop is over, and with
\* no change record it is not written and no publish step runs.
C5_WriteOnce ==
    /\ Cardinality({ n \in 1..Len(ran) : ran[n] = "write" }) <= 1
    /\ Ran("write") => i = Len(want) + 1 /\ pc \notin {"flip", "flipped"}
    /\ Len(changes) = 0 =>
           /\ ~Ran("write")
           /\ ~Published
           /\ (disk = NoFile \/ disk = b)

C5_Witness ==
    /\ pc = "done"
    /\ err = "none"
    /\ Len(want) = 2
    /\ Len(changes) = 2
    /\ Ran("write")
    /\ disk # b

C7_NoPublishAfterWriteError ==
    /\ err = "write" => pc = "done" /\ ~Published
    /\ Published => Ran("write") /\ err # "write" /\ disk = Join(lines, NL)

C7_Witness ==
    /\ err = "write"
    /\ doCommit
    /\ doPR
    /\ Len(changes) # 0

\* C8: a run with --pr, dry-run off and at least one change that ends without
\* an error has committed, pushed and created the pull request.
C8_PrImpliesCommit ==
    (pc = "done" /\ err = "none" /\ doPR /\ ~dryRun /\ Len(changes) # 0) =>
        Ran("commit") /\ Ran("push") /\ Ran("pr")

\* C9: when the one requested adapter holds 0 or 1, toggling the content the
\* toggle gave once more for the same adapter gives the adapter its value as
\* read; if its line as read was exactly key=0 or key=1 the content is the
\* content read.
C9_Involution ==
    (pc = "flipped" /\ Len(want) = 1 /\ Flippable(Orig, want[1])) =>
        \A k \in {want[1]} :
        \A o \in {Orig} :
        \A v \in {ValueOf(o, k)} :
        \A again \in {toggle(Join(lines, NL), adaptersCSV, propPath)} :
           /\ ValueOf(lines, k) # v
           /\ ValueOf(again.lines, k) = v
           /\ (o[LastLineOf(o, k)] = k \o <<"=">> \o v
                  => Join(again.lines, NL) = b)

C9_Witness ==
    /\ pc = "flipped"
    /\ Len(want) = 1
    /\ Len(changes) = 1
    /\ Join(toggle(Join(lines, NL), adaptersCSV, propPath).lines, NL) # b

\* C10: for every change record, the lines of its key before the last one are
\* the lines read, and the old value of the first record of a key is the value
\* of the last line of that key as read.
C10_LastWins ==
    \A n \in 1..Len(changes) :
        \A k \in {changes[n].Adapter} :
        \A o \in {Orig} :
        \A occ \in {KeyLines(o, k)} :
           /\ occ # {}
           /\ \A last \in {Max(occ)} :
                 /\ \A j \in occ : j # last => lines[j] = o[j]
                 /\ lines[last] = k \o <<"=">> \o TrimSpace(parseKV(lines[last]).val)
                 /\ (\A h \in 1..(n - 1) : changes[h].Adapter # k) =>
                        changes[n].OldValue = TrimSpace(parseKV(o[last]).val)

C10_Witness ==
    /\ pc = "flipped"
    /\ Len(changes) = 1
    /\ Cardinality(KeyLines(Orig, changes[1].Adapter)) = 2
    /\ lines[1] = Orig[1]
    /\ parseKV(Orig[1]).val # changes[1].OldValue

\* C11: a step of the loop that flips a key leaves the line of that key as
\* exactly the key as parsed from the line before, one "=", and the new value,
\* with no white space in it, whatever the indentation, the separator, the
\* spacing and the trailing white space (a trailing "\r" included) of the line
\* before.
C11_CanonicalLine ==
    [][ Len(changes') = Len(changes) + 1 =>
            \A c \in {changes'[Len(changes')]} :
            \A last \in {LastLineOf(lines, c.Adapter)} :
            \A new \in {lines'[last]} :
               /\ kvRe(lines[last])[2] = c.Adapter
               /\ new = c.Adapter \o <<"=">> \o c.NewValue
               /\ Len(new) = Len(c.Adapter) + 2
               /\ new[Len(c.Adapter) + 1] = "="
               /\ \A j \in 1..Len(new) : ~IsSpace(new[j]) ]_vars

C11_Witness ==
    /\ pc = "flipped"
    /\ Len(changes) = 2
    /\ Orig = << <<SP, "a", SP, ":", SP, "0", SP>>, <<"b", ":", "0">> >>
    /\ lines = << <<"a", "=", "1">>, <<"b", "=", "1">> >>

\* C12: a line isCommentOrBlank accepts is never a key/value line for parseKV:
\* parseKV gives no key, no value and ok = false for it, also when a key/value
\* text follows the comment marker.
C12_CommentNeverParses ==
    (call.fn = "classify" /\ ret # <<>>) =>
        (ret[1].comment =>
            ret[1].kv = [key |-> <<>>, val |-> <<>>, ok |-> FALSE])

C12_Witness ==
    /\ call.fn = "classify"
    /\ call.line = <<"#", "a", "=", "a">>
    /\ ret # <<>>
    /\ ret[1].comment
    /\ ~ret[1].kv.ok

(* ------------------------- properties of ip-port ------------------------ *)

\* the lines of the file at path as the scanner gives them
LinesOf(path) ==
    IF tree[path].content = NoFile THEN <<>> ELSE scanLines(tree[path].content)

LineAt(path, n) == LinesOf(path)[n]

\* the lines the scan has been through so far, as <<path, line number>>
Consumed ==
    UNION { { <<files[f], n>> : n \in 1..Len(LinesOf(files[f])) } : f \in 1..(fi - 1) }
        \cup (IF pc = "line" THEN { <<files[fi], n>> : n \in 1..lineNo } ELSE {})

RowsAt(path, n) ==
    SelectSeq(rows, LAMBDA r : r.RelPath = path /\ r.LineNumber = n)

FieldsOf(r) ==
    [IPKey |-> r.IPKey, IPValue |-> r.IPValue,
     PortKey |-> r.PortKey, PortValue |-> r.PortValue]

\* the first character of the line that is not white space is "#" or ";"
IsCommentLine(line) ==
    LET t == TrimSpace(line) IN t # <<>> /\ t[1] \in {"#", ";"}

\* C13: no row is for a comment line, a line whose first character after the
\* leading white space is "#" or ";".
C13_NoRowForComment ==
    \A n \in 1..Len(rows) :
        ~IsCommentLine(LineAt(rows[n].RelPath, rows[n].LineNumber))

\* C14: every row has at least one of its four fields non-empty, and no line
\* that is empty after trimming has a row.
C14_RowsNotEmpty ==
    /\ \A n \in 1..Len(rows) :
          /\ FieldsOf(rows[n]) # NoFields
          /\ TrimSpace(LineAt(rows[n].RelPath, rows[n].LineNumber)) # <<>>
    /\ \A c \in Consumed :
          TrimSpace(LineAt(c[1], c[2])) = <<>> => RowsAt(c[1], c[2]) = <<>>

C14_Witness ==
    /\ pc = "scanned"
    /\ DOMAIN tree = { <<"a", "/", "b">> }
    /\ files = << <<"a", "/", "b">> >>
    /\ Len(LinesOf(files[1])) = 3
    /\ LineAt(files[1], 1) = <<>>
    /\ Len(rows) = 1
    /\ rows[1].PortKey = <<"p", "o", "r", "t">>
    /\ rows[1].IPKey = <<>>

\* C15: the line number of a row is the 1-based position of its line among
\* the pieces of the file between "\n" characters, blank lines, comment lines
\* and lines without a row counted, a last piece without "\n" included: the
\* row holds the fields of the piece at that position, every consumed line
\* that has fields has its row, and lineNo is the number of pieces consumed.
C15_LineNumbers ==
    /\ \A n \in 1..Len(rows) :
          LET pieces == Split(tree[rows[n].RelPath].content, NL)
              k == rows[n].LineNumber
          IN /\ k \in 1..Len(pieces)
             /\ pieces[k] # <<>>
             /\ FieldsOf(rows[n]) =
                    lineFields(IF pieces[k][Len(pieces[k])] = CR
                               THEN SubSeq(pieces[k], 1, Len(pieces[k]) - 1)
                               ELSE pieces[k])
    /\ \A c \in Consumed :
          (TrimSpace(LineAt(c[1], c[2])) # <<>>
              /\ lineFields(LineAt(c[1], c[2])) # NoFields)
                 => Len(RowsAt(c[1], c[2])) = 1
    /\ pc = "line" => lineNo + Len(pending) = Len(LinesOf(files[fi]))

C15_Witness ==
    /\ pc = "scanned"
    /\ files = << <<"a", ".", "p">>, <<"c">> >>
    /\ tree[files[1]].content = <<NL, "x", NL, "p", "o", "r", "t", SP, "8", "0">>
    /\ tree[files[2]].content = <<"#", CR, NL, ":", ":", "1", NL, NL>>
    /\ Len(rows) = 2
    /\ rows[1].LineNumber = 3
    /\ rows[2].LineNumber = 2

\* C16: the rows are strictly increasing in (path, line number), the paths in
\* byte order: no two rows are for the same line of the same file; and when
\* the scan is over the rows are those a second scan of the same files gives.
C16_Ordered ==
    /\ \A n \in 1..(Len(rows) - 1) :
          \/ StrLess(rows[n].RelPath, rows[n + 1].RelPath, FALSE)
          \/ /\ rows[n].RelPath = rows[n + 1].RelPath
             /\ rows[n].LineNumber < rows[n + 1].LineNumber
    /\ pc = "scanned" => rows = RowsOfFiles(tree, files)

C16_Witness ==
    /\ pc = "scanned"
    /\ files = << <<"a", ".", "p">>, <<"a", "/", "b">> >>
    /\ Len(rows) = 2
    /\ rows[1].RelPath = <<"a", ".", "p">>
    /\ rows[2].RelPath = <<"a", "/", "b">>

\* C17: some line kvRe matches gives, scanned as the only line of a file, one
\* row with the IP key, the IP value, the port key and the port value all
\* non-empty; and no line has two rows.
C17_BothInOneRecord ==
    pc = "scanned" =>
        /\ \E l \in ScanLinePool :
              /\ Len(kvRe(l)) = 3
              /\ LET rs == RowsOfLines(<<l>>, <<"c">>, 1)
                 IN /\ Len(rs) = 1
                    /\ rs[1].IPKey # <<>>
                    /\ rs[1].IPValue # <<>>
                    /\ rs[1].PortKey # <<>>
                    /\ rs[1].PortValue # <<>>
        /\ \A c \in Consumed : Len(RowsAt(c[1], c[2])) <= 1

\* the row of the line number c[2] of the file c[1] with the given fields
RowWith(c, ipKey, ipValue, portKey, portValue) ==
    [IPKey |-> ipKey, IPValue |-> ipValue, PortKey |-> portKey,
     PortValue |-> portValue, RelPath |-> c[1], LineNumber |-> c[2]]

\* C18: for a consumed line with key k and trimmed value v, the IP key is k
\* and the IP value is v without its quotes exactly when looksLikeIP(v), else
\* both are empty; the port key is k and the port value is v without its
\* quotes exactly when looksLikePort(k, v), else both are empty; the line has
\* that one row, or none when the four are empty.  database.port=5432 gives
\* port key database.port and port value 5432; host: "203.0.113.1" gives IP
\* key host and IP value 203.0.113.1.
C18_KvFields ==
    \A c \in Consumed :
        LET line == LineAt(c[1], c[2])
            kv == parseKV(line)
            ip == looksLikeIP(kv.val)
            port == looksLikePort(kv.key, kv.val)
            row == RowWith(c, IF ip THEN kv.key ELSE <<>>,
                              IF ip THEN stripQuotes(kv.val) ELSE <<>>,
                              IF port THEN kv.key ELSE <<>>,
                              IF port THEN stripQuotes(kv.val) ELSE <<>>)
        IN kv.ok =>
              /\ RowsAt(c[1], c[2]) = IF ip \/ port THEN <<row>> ELSE <<>>
              /\ line = <<"d", "a", "t", "a", "b", "a", "s", "e", ".", "p", "o", "r",
                          "t", "=", "5", "4", "3", "2">>
                    => RowsAt(c[1], c[2]) =
                          << RowWith(c, <<>>, <<>>,
                                     <<"d", "a", "t", "a", "b", "a", "s", "e", ".",
                                       "p", "o", "r", "t">>,
                                     <<"5", "4", "3", "2">>) >>
              /\ line = <<SP, SP, "h", "o", "s", "t", ":", SP, QUOTE, "2", "0", "3",
                          ".", "0", ".", "1", "1", "3", ".", "1", QUOTE>>
                    => RowsAt(c[1], c[2]) =
                          << RowWith(c, <<"h", "o", "s", "t">>,
                                     <<"2", "0", "3", ".", "0", ".", "1", "1", "3",
                                       ".", "1">>, <<>>, <<>>) >>

C18_Witness ==
    /\ pc = "scanned"
    /\ Len(rows) = 1
    /\ LineAt(rows[1].RelPath, 1)[Len(LineAt(rows[1].RelPath, 1))] = QUOTE
    /\ rows[1].IPKey = <<"h", "o", "s", "t">>
    /\ rows[1].IPValue = <<"2", "0", "3", ".", "0", ".", "1", "1", "3", ".", "1">>
    /\ rows[1].PortKey = <<>>

\* C19: for a consumed line that is not blank and that kvRe does not match,
\* the IP key is empty, the IP value is the leftmost IPv4 literal of the line
\* when it has one, also with an IPv6 literal before it, else the leftmost
\* IPv6 literal, else empty; the port key and value are those findInlinePort
\* gives, whatever the IP value is.  "connect to 192.168.1.1:8080" gives the IP
\* value 192.168.1.1 and no port.
C19_TextFields ==
    \A c \in Consumed :
        LET line == LineAt(c[1], c[2])
            v4 == FindString(ipv4, line)
            v6 == FindString(ipv6, line)
            p == findInlinePort(line)
            row == RowWith(c, <<>>, IF v4 # <<>> THEN v4 ELSE v6,
                              IF p.ok THEN p.key ELSE <<>>,
                              IF p.ok THEN p.val ELSE <<>>)
        IN (TrimSpace(line) # <<>> /\ ~parseKV(line).ok) =>
              /\ RowsAt(c[1], c[2]) =
                    IF v4 # <<>> \/ v6 # <<>> \/ p.ok THEN <<row>> ELSE <<>>
              /\ line = <<"c", "o", "n", "n", "e", "c", "t", SP, "t", "o", SP, "1",
                          "9", "2", ".", "1", "6", "8", ".", "1", ".", "1", ":", "8",
                          "0", "8", "0">>
                    => RowsAt(c[1], c[2]) =
                          << RowWith(c, <<>>,
                                     <<"1", "9", "2", ".", "1", "6", "8", ".", "1",
                                       ".", "1">>, <<>>, <<>>) >>

C19_Witness ==
    /\ pc = "scanned"
    /\ Len(rows) = 1
    /\ HasPrefix(LineAt(rows[1].RelPath, 1), <<":", ":", "1", SP>>)
    /\ rows[1].IPKey = <<>>
    /\ rows[1].IPValue = <<"1", "0", ".", "0", ".", "0", ".", "1">>
    /\ rows[1].PortKey = <<>>

\* C20: looksLikePort(key, value) is true exactly when the lower-cased key
\* contains "port" and the value, trimmed and without one layer of matching
\* quotes, is made of 2 to 5 ASCII digits; the number itself is not looked at:
\* 00 and 99999 are taken, 1 and 123456 are not, and no value is taken for a
\* key without "port".
C20_PortExact ==
    (call.fn = "looksLikePort" /\ ret # <<>>) =>
        LET t == TrimSpace(call.value)
            quoted == /\ Len(t) >= 2
                      /\ t[1] = t[Len(t)]
                      /\ t[1] \in {QUOTE, "'"}
            u == IF quoted THEN SubSeq(t, 2, Len(t) - 1) ELSE t
            keyOk == \E j \in 1..(Len(call.key) - 3) :
                        /\ call.key[j] \in {"p", "P"}
                        /\ call.key[j + 1] \in {"o", "O"}
                        /\ call.key[j + 2] \in {"r", "R"}
                        /\ call.key[j + 3] \in {"t", "T"}
        IN /\ ret[1] = (/\ keyOk
                        /\ Len(u) \in 2..5
                        /\ \A j \in 1..Len(u) : u[j] \in Digit)
           /\ (keyOk /\ call.value \in { <<"0", "0">>, <<"9", "9", "9", "9", "9">> })
                 => ret[1]
           /\ call.value \in { <<"9">>, <<"9", "9", "9", "9", "9", "9">> } => ~ret[1]
           /\ ~keyOk => ~ret[1]

C20_Witness ==
    /\ call.fn = "looksLikePort"
    /\ call.key = <<"h", "t", "t", "p", "P", "o", "r", "t">>
    /\ call.value = <<"9", "9", "9", "9", "9">>
    /\ ret = <<TRUE>>

\* the files of fs that open
Readable(fs) == SelectSeq(fs, LAMBDA f : tree[f].content # NoFile)

IsPrefix(x, y) == Len(x) <= Len(y) /\ SubSeq(y, 1, Len(x)) = x

\* C21: no step of the scan takes a row away; a file that does not open is
\* passed without a row and the scan goes on at the next file; and the rows
\* returned are the rows of the collected files that open, one file after the
\* other, every collected file having had its turn.
C21_Additive ==
    [][ /\ IsPrefix(rows, rows')
        /\ (pc = "open" /\ fi <= Len(files) /\ tree[files[fi]].content = NoFile)
              => (rows' = rows /\ fi' = fi + 1 /\ pc' = "open")
        /\ pc' = "scanned"
              => /\ fi' = Len(files) + 1
                 /\ rows' = RowsOfFiles(tree, Readable(files)) ]_vars

C21_Witness ==
    /\ pc = "scanned"
    /\ files = << <<"a", ".", "p">>, <<"c">> >>
    /\ tree[files[1]].content = NoFile
    /\ tree[files[2]].content = <<"h", "=", "1", ".", "1", ".", "1", ".", "1", NL>>
    /\ Len(rows) = 1
    /\ rows[1].RelPath = <<"c">>
    /\ rows[1].IPValue = <<"1", ".", "1", ".", "1", ".", "1">>

\* C22: every collected file that does not open and that the scan has passed
\* has a warning about the failed open that names it.
C22_WarnsUnreadable ==
    \A f \in 1..Len(files) :
        (pc \notin {"walk", "sort"} /\ f < fi /\ tree[files[f]].content = NoFile)
            => \E n \in 1..Len(warnings) :
                  warnings[n].about = "open" /\ warnings[n].path = files[f]

\* C23: once the walk has collected a file, so that the root directory was
\* read, every selected file that lies in the root directory itself, a sibling
\* of any directory the walk can fail in, is collected.
C23_SiblingsCollected ==
    (pc # "walk" /\ files # <<>>)
        => \A p \in DOMAIN tree :
              (tree[p].selected /\ ~Contains(p, <<"/">>))
                 => \E n \in 1..Len(files) : files[n] = p

(* ------------------- properties of the whole command -------------------- *)

\* the trimmed non-empty names of a comma list
Names(L) ==
    LET parts == Split(L, ",")
    IN SelectSeq([j \in 1..Len(parts) |-> TrimSpace(parts[j])], LAMBDA a : a # <<>>)

\* C24: when the command ends with the error of a missing --repo, a missing
\* --env, missing adapters or a rejected environment name, the repository was
\* not fetched and the properties file was neither read nor written.
C24_ValidationFirst ==
    (pc = "done" /\ err \in {"repo", "env", "adapters", "envname"})
        => /\ ~Ran("clone")
           /\ ~Ran("read")
           /\ ~Ran("write")

\* the steps of RunE that change the checkout or publish it, in the order
\* they ran
PublishRun ==
    SelectSeq(ran, LAMBDA s : s \in {"write", "checkout", "add", "commit", "push", "pr"})

\* C26: the write, the checkout -b, the add, the commit, the push and the
\* pull request run in this order, each at most once and none without the
\* ones before it; the branch is created only with --commit, dry-run off and a
\* change, the pull request only with --pr; a step that fails is the last
\* step of the command; and a command that ends without error with --commit
\* has run them all, up to the push without --pr.
C26_PublishOrder ==
    LET order == <<"write", "checkout", "add", "commit", "push", "pr">>
    IN /\ IsPrefix(PublishRun, order)
       /\ Ran("checkout") => (doCommit /\ ~dryRun /\ Len(changes) # 0)
       /\ Ran("pr") => doPR
       /\ err \in {"write", "report", "checkout", "add", "commit", "push", "pr"}
             => (pc = "done" /\ ran[Len(ran)] = err)
       /\ (pc = "done" /\ err = "none" /\ Ran("write") /\ doCommit)
             => PublishRun = SubSeq(order, 1, IF doPR THEN 6 ELSE 5)

C26_Witness ==
    /\ pc = "done"
    /\ err = "none"
    /\ doPR
    /\ ran = <<"clone", "read", "write", "report", "checkout", "add", "commit",
               "push", "pr">>

\* C27: after the first i - 1 entries of the request, the change records are
\* those of the entries whose key has a last line holding 0 or 1 in the file
\* as read, in the order of the request, one record per entry; the old value
\* of a record is the value as read when the key was requested an even number
\* of times before, the other value otherwise, and the new value is the other
\* one; and the value of such a key differs from the value as read exactly
\* when the key was requested an odd number of times; when the loop is over
\* every entry of the request has had its turn.
C27_ChangeOrder ==
    lines # <<>> =>
        LET req == Names(adaptersCSV)
            o == Orig
            n == i - 1
            Count(k, j) == Cardinality({ h \in 1..j : req[h] = k })
            Other(v) == IF v = <<"0">> THEN <<"1">> ELSE <<"0">>
            OldAt(j) == IF Count(req[j], j - 1) % 2 = 0
                        THEN ValueOf(o, req[j])
                        ELSE Other(ValueOf(o, req[j]))
            flips == SelectSeq([j \in 1..n |-> j], LAMBDA j : Flippable(o, req[j]))
        IN /\ n <= Len(req)
           /\ pc # "flip" => n = Len(req)
           /\ Len(changes) = Len(flips)
           /\ \A c \in 1..Len(flips) :
                 changes[c] = [Adapter |-> req[flips[c]],
                               OldValue |-> OldAt(flips[c]),
                               NewValue |-> Other(OldAt(flips[c])),
                               FilePath |-> propPath]
           /\ \A j \in 1..n :
                 Flippable(o, req[j])
                    => (ValueOf(lines, req[j]) # ValueOf(o, req[j])
                           <=> Count(req[j], n) % 2 = 1)

C27_Witness ==
    /\ pc = "flipped"
    /\ want = << <<"a">>, <<"a">> >>
    /\ Len(changes) = 2
    /\ changes[1].OldValue = <<"1">>
    /\ changes[2].OldValue = <<"0">>
    /\ changes[2].NewValue = <<"1">>
    /\ lines # Orig
    /\ ValueOf(lines, <<"a">>) = ValueOf(Orig, <<"a">>)

\* C28: when the environment name is accepted, the path of the properties
\* file is the path of the file parameters.properties under the directory env
\* of the checkout, with no "..", "." or empty element in it, and it is the
\* file the raw name designates; a name whose raw path leaves the directory
\* env is never accepted.
C28_InsideEnv ==
    pc = "read" =>
        LET elems == Split(propPath, "/")
            n == Len(elems)
            root == Split(tmpDir, "/") \o <<EnvDirName>>
        IN /\ n \in {Len(root) + 1, Len(root) + 2}
           /\ SubSeq(elems, 1, Len(root)) = root
           /\ elems[n] = PropsName
           /\ \A j \in 2..n : elems[j] \notin {<<>>, <<".">>, <<".", ".">>}
           /\ propPath = PathJoin(<<tmpDir, EnvDirName, envName, PropsName>>)

C28_Witness ==
    /\ pc = "read"
    /\ envName = <<"d", "/", ".", ".">>
    /\ propPath = <<"/", "t", "/", "e", "n", "v", "/", "p", ".", "p">>

(* -------------------- properties of the adapter store ------------------- *)

RECURSIVE LastSet(_)
\* <<the names of the most recent successful set that no clear followed>>, or
\* <<>> when there is none
LastSet(h) ==
    IF h = <<>> THEN <<>>
    ELSE LET c == h[Len(h)]
             before == LastSet(SubSeq(h, 1, Len(h) - 1))
         IN IF c.list THEN before
            ELSE IF c.clear THEN <<>>
            ELSE IF c.ok THEN <<Names(c.adapters)>>
            ELSE before

\* C25: flip-adapters without --adapters goes on with the names of the most
\* recent successful set-adapters --adapters that no --clear followed, and
\* fails when there is none; a set is rejected exactly when it has no name,
\* and a rejected set does not count; every --clear succeeds.
C25_StoredListUsed ==
    /\ pc = "clone"
          => (LastSet(cmds) # <<>> /\ splitCSV(adaptersCSV, <<>>) = LastSet(cmds)[1])
    /\ pc = "done" => (err = "adapters" /\ LastSet(cmds) = <<>>)
    /\ \A n \in 1..Len(cmds) :
          /\ (~cmds[n].list /\ cmds[n].clear) => cmds[n].ok
          /\ (~cmds[n].list /\ ~cmds[n].clear)
                => (cmds[n].ok <=> Names(cmds[n].adapters) # <<>>)

\* C29: right after a successful set-adapters --adapters L, loading the
\* adapter file gives the trimmed non-empty names of L, in the order and with
\* the multiplicity of L.
C29_StoreRoundTrip ==
    (cmds # <<>> /\ ~cmds[Len(cmds)].list /\ ~cmds[Len(cmds)].clear
        /\ cmds[Len(cmds)].ok)
        => loadStoredAdapters(adaptersFile) = Names(cmds[Len(cmds)].adapters)

(* ---------------------- properties of --all-branches -------------------- *)

\* the rows of a full scan of the tree of a branch, the branch in front of
\* each path
Tagged(branch, found) ==
    [n \in 1..Len(found) |->
        [found[n] EXCEPT !.RelPath = <<"[">> \o branch \o <<"]", SP>> \o @]]

\* the rows of allRows that carry the branch
RowsOfBranch(branch) ==
    SelectSeq(allRows, LAMBDA r : HasPrefix(r.RelPath, <<"[">> \o branch \o <<"]", SP>>))

\* C30: the branches are distinct names and none holds "HEAD"; after the
\* first bi - 1 of them, allRows is, branch after branch in the order of
\* branches, the rows of a scan of the tree of each branch that checked out,
\* the path of every row being "[<branch>] " and the path in the tree (the
\* full scan when no walk met an error); a branch that did not check out has
\* no row and one warning naming it, and the branches after it are scanned.
C30_AllBranches ==
    pc \in {"checkout", "done"} /\ err = "none" =>
        LET done == bi - 1
            ok == SelectSeq(SubSeq(branches, 1, done), checksOut)
            RECURSIVE Concat(_)
            Concat(seqs) == IF seqs = <<>> THEN <<>>
                            ELSE Head(seqs) \o Concat(Tail(seqs))
            treeOf(br) == remote.heads[br].tree
            full(br) == Tagged(br, scanForIPPort(treeOf(br), Len(walkDir(treeOf(br)))))
            noWalkError == \A n \in 1..Len(warnings) : warnings[n].about # "walk"
            failed == SelectSeq(SubSeq(branches, 1, done), LAMBDA br : ~checksOut(br))
        IN /\ \A x, y \in 1..Len(branches) : x # y => branches[x] # branches[y]
           /\ \A x \in 1..Len(branches) : ~Contains(branches[x], <<"H", "E", "A", "D">>)
           /\ done <= Len(branches)
           /\ pc = "done" => done = Len(branches)
           /\ allRows = Concat([n \in 1..Len(ok) |-> RowsOfBranch(ok[n])])
           /\ \A n \in 1..Len(ok) :
                 \E k \in 0..Len(walkDir(treeOf(ok[n]))) :
                    RowsOfBranch(ok[n]) = Tagged(ok[n], scanForIPPort(treeOf(ok[n]), k))
           /\ noWalkError => allRows = Concat([n \in 1..Len(ok) |-> full(ok[n])])
           /\ SelectSeq(warnings, LAMBDA w : w.about = "checkout")
                 = [n \in 1..Len(failed) |-> [about |-> "checkout", path |-> failed[n]]]

C30_Witness ==
    /\ pc = "done"
    /\ err = "none"
    /\ branches = << <<"x">>, <<"m">> >>
    /\ Len(Split(remote.output, NL)) = 4
    /\ ~checksOut(<<"x">>)
    /\ Len(warnings) = 1
    /\ warnings[1].path = <<"x">>
    /\ Len(allRows) = 1
    /\ allRows[1].RelPath = <<"[", "m", "]", SP, "a", "/", "b">>
    /\ allRows[1].LineNumber = 2

=============================================================================
